---- MODULE Spec2Model ----
\* Model of aem.js: the DAM crawler (discoverAllAssets / findAssets) and the
\* bounded-concurrency download engine (downloadAllAssets / downloadAsset).
EXTENDS Integers, Sequences, FiniteSets, TLC

\* ------------------------------------------------------------------
\* Bounds of the model
\* ------------------------------------------------------------------
MaxNodes == 3        \* nodes below /content/dam in the repository tree
MaxEmbed == 2        \* deepest nesting the backend embeds in one listing
MaxPattern == 1      \* search patterns 0..MaxPattern
MaxCfgDepth == 1     \* largest config.maxDepth tried below the default
MaxConc == 2         \* largest config.maxConcurrent tried
PayloadBytes == 10   \* size of a complete payload
PartialBytes == 3    \* bytes written before a transfer breaks
MaxAttempts == 3     \* largest config.retryAttempts tried
MaxDelay == 2        \* largest config.retryDelay tried (ms)
MaxNest == 3         \* deepest nesting of a listing whose processing is followed
MaxText == 2         \* longest asset name and search pattern, in characters
MaxRenditions == 2   \* longest assetInfo.renditions

\* ------------------------------------------------------------------
\* Program constants
\* ------------------------------------------------------------------
LargeItems == 50     \* scanFolder: "if (itemCount > 50) break"
NestLimit == 2       \* processDAMData: "currentDepth < 2"
DefaultMaxDepth == 50 \* config.maxDepth
DefaultTestLimit == 10 \* config.testLimit
DefaultMaxConcurrent == 3 \* config.maxConcurrent
Tolerance == 1000    \* downloadAsset: "Math.abs(existingSize - assetInfo.size) < 1000"
MinExisting == 100   \* downloadAsset: "existingSize > 100"
NumUrls == 5         \* downloadAsset: urlPatterns.length
RetryAttempts == 3   \* config.retryAttempts
RetryDelay == 1000   \* config.retryDelay

VARIABLES
  \* the remote repository (static during a run)
  parent,          \* parent[n]: parent node of n (0 is /content/dam)
  kind,            \* kind[n]: "folder" | "asset" | "junk" | "other"
  jcr,             \* <<n, t>>: node n reports the path of node t as its jcr:path
                   \* (<<0, 0>>: no node carries a jcr:path)
  quirk,           \* <<n, q>>: what is unusual about node n (<<0, "none">>: nothing)
                   \*   "system":    its key is a system key (jcr:content, ...)
                   \*   "noextract": extractAssetInfo raises on it (a jcr:path
                   \*                that is not a string)
                   \*   "badtitle":  its dc:title is not a string
  embed,           \* nesting levels the backend is able to embed
  \* configuration
  maxDepth,        \* config.maxDepth
  testMode,        \* config.testMode
  testLimit,       \* config.testLimit
  findDownload,    \* config.findDownloadMode
  startFolder,     \* config.folderQueue as the command line leaves it:
                   \* <<>>, or <<P>> after "--folder P"
  retryAttempts,   \* config.retryAttempts
  retryDelay,      \* config.retryDelay
  \* crawl state (config.*)
  phase,           \* position of main(): "idle" | "discover" | "discovered" |
                   \* "find" | "found" | "findm" | "foundm" | "download", and
                   \* "threw": an exception left the crawl
  pattern,         \* findAssets: searchPattern, the name of node pattern
                   \* (0: a part of "/content/dam", found in every path)
  folderQueue,     \* config.folderQueue
  processedPaths,  \* config.processedPaths
  discoveredAssets,\* config.discoveredAssets: keys in insertion order
  totalAssets,     \* config.stats.totalAssets
  foldersScanned,  \* config.stats.foldersScanned
  patterns,        \* findMultipleAssets: searchPatterns, in the caller's order
  foundAssets,     \* findAssets: foundAssets (paths, in order)
  matchedPattern,  \* findMultipleAssets: matchedPattern of foundAssets[i]
  \* observation of the crawl
  fetchLog,        \* paths handed to scanFolder / searchInFolder, in order
  fetchFailed,     \* paths for which no depth hint gave a listing
  fetchLevel,      \* nesting of the listing kept by the i-th scanFolder call
  probes,          \* scanFolder calls followed hint by hint: the folder, how
                   \* many of the first hints failed, the listing kept and
                   \* the number of hints requested
  checks,          \* checkPatternMatch calls of a search followed field by
                   \* field: the asset node, the pattern given to findAssets
                   \* and the reason returned
  infos,           \* asset records whose making is followed: the size fields
                   \* the server supplied and the size of the record
  \* earlier runs of the program against the same backend
  firstRun,        \* what the first process fetched, was answered and discovered,
                   \* and the assets it counted as failed
  \* the process
  proc,            \* alive: not exited; sigint: the SIGINT handler ran; fetches,
                   \* started: the fetches and downloads begun when it ended
  reports,         \* what generateReport wrote, call by call
  \* download engine
  maxConcurrent,   \* config.maxConcurrent
  downloadMetadata,\* config.downloadMetadata
  expected,        \* expected[a]: assetInfo.size of the a-th asset (0: unknown)
  file,            \* file[a]: what outputPath of asset a holds
  dpc,             \* position of downloadAllAssets
  dlQueue,         \* downloadAllAssets: queue
  inProgress,      \* downloadAllAssets: inProgress
  raceOn,          \* the promises the pending Promise.race was called with
  task,            \* task[a]: the downloadAsset call of asset a
  downloadedAssets,\* config.stats.downloadedAssets
  skippedAssets,   \* config.stats.skippedAssets
  failedAssets,    \* config.stats.failedAssets
  totalSize,       \* config.stats.totalSize
  errors,          \* config.stats.errors
  \* observation of the downloads
  existing,        \* existing[a]: size of outputPath before the run (-1: no file)
  net,             \* net[a]: what the backend did for the candidate URLs of a
  rq,              \* the makeRequestWithRetry call of a download that is followed
                   \* request by request: its URL, the results of its requests,
                   \* how it ended, the requests sent to every candidate URL,
                   \* and the delays it slept between its requests
  downloadRenditions, \* config.downloadRenditions
  rend             \* rend[a]: the downloadRenditions call of asset a: the
                   \* assetInfo.renditions it was given, what the backend did
                   \* for the URLs of each rendition it reached, and whether
                   \* it is still awaiting a write that cannot finish

searchVars == <<pattern, patterns, matchedPattern>>
crawlVars == <<phase, searchVars, folderQueue, processedPaths, discoveredAssets,
               totalAssets, foldersScanned, foundAssets, fetchLog, fetchFailed,
               fetchLevel, probes, checks, infos>>
runVars == <<firstRun, proc, reports>>
envVars == <<parent, kind, jcr, quirk, embed, maxDepth, testMode, testLimit, findDownload, startFolder,
             retryAttempts, retryDelay, downloadRenditions>>
statVars == <<downloadedAssets, skippedAssets, failedAssets, totalSize, errors>>
poolVars == <<dpc, dlQueue, inProgress, raceOn>>
dlVars == <<maxConcurrent, downloadMetadata, expected, existing, file, task, net, rq, rend, rend,
           poolVars, statVars>>
vars == <<envVars, runVars, crawlVars, dlVars>>

Nodes == 1..MaxNodes
Kinds == {"folder", "asset", "junk", "other"}
Root == <<>>         \* the path /content/dam

\* ------------------------------------------------------------------
\* The repository tree and the backend
\* ------------------------------------------------------------------
RECURSIVE PathOf(_)
PathOf(n) == IF n = 0 THEN Root ELSE Append(PathOf(parent[n]), n)

NoNode == 0 - 1
NodeAt(p) ==
  IF p = Root THEN 0
  ELSE LET n == p[Len(p)] IN IF n \in Nodes /\ PathOf(n) = p THEN n ELSE NoNode

KindOf(n) == IF n = 0 THEN "folder" ELSE kind[n]

\* keys of a listing, in the order "for (const key in data)" visits them
RECURSIVE SortedFrom(_, _)
SortedFrom(S, i) ==
  IF i > MaxNodes THEN <<>>
  ELSE IF i \in S THEN <<i>> \o SortedFrom(S, i + 1) ELSE SortedFrom(S, i + 1)
Children(n) == SortedFrom({c \in Nodes : parent[c] = n}, 1)

\* nodes numbered breadth-first, every parent a folder
TreeOK ==
  /\ \A n \in Nodes : parent[n] < n /\ KindOf(parent[n]) = "folder"
  /\ \A n \in Nodes : n + 1 \in Nodes => parent[n] <= parent[n + 1]

NoQuirk == <<0, "none">>

\* at most one node carries a jcr:path; it names a node listed before it
JcrChoices == {<<0, 0>>} \cup {<<n, t>> \in Nodes \X (0..MaxNodes) : t < n}

\* depth hints of scanFolder and the depth each one asks the backend for
JsonDepths == <<1, 0, 2, 3, 4, 5>>
SearchJsonDepths == <<1, 0, 2, 3>>
Fail == 0 - 1
Min(a, b) == IF a < b THEN a ELSE b

\* the backend answers hint i with the listing cut at the asked depth (at most
\* embed levels); the first k hints fail
Responses(hints, k) ==
  [i \in 1..Len(hints) |-> IF i <= k THEN Fail ELSE Min(hints[i], embed)]

\* ------------------------------------------------------------------
\* isAsset / isFolder / isValidAsset
\* ------------------------------------------------------------------
isAsset(n) == KindOf(n) \in {"asset", "junk"}
isFolder(n) == KindOf(n) = "folder"
isValidAsset(n) == KindOf(n) # "junk"

\* "if (key.startsWith('jcr:') || key.startsWith(':') || ...) continue"
SystemKey_NotSkipped(c) == FALSE

SystemKey(c) == quirk = <<c, "system">>

\* extractAssetInfo: FALSE when the try block raises and null is returned
extractAssetInfo(c) == quirk # <<c, "noextract">>

\* checkPatternMatch raises: assetInfo.title.toLowerCase is not a function
MatchThrows(c) == quirk = <<c, "badtitle">>

\* ------------------------------------------------------------------
\* Discovery: scanFolder / processDAMData
\* ------------------------------------------------------------------
Range(s) == {s[i] : i \in 1..Len(s)}

\* Map.set(key, ...): a new key goes last, an existing key keeps its place
MapSet(keys, k) == IF k \in Range(keys) THEN keys ELSE Append(keys, k)

\* item['jcr:path'] || `${basePath}/${key}`
ItemPath(c, basePath) == IF jcr[1] = c THEN PathOf(jcr[2]) ELSE Append(basePath, c)

TestLimitReached(total) == testMode /\ total >= testLimit

\* "if (currentDepth < 2 && ...)": the nested data of a folder is processed
ExploreNested_OneLevel(currentDepth) == currentDepth < 1

ExploreNested(currentDepth) == currentDepth < NestLimit

\* st = [queue, processed, assets, total]: config.folderQueue,
\* config.processedPaths, the keys of config.discoveredAssets and
\* config.stats.totalAssets while one listing is processed. data is the subtree of node n, cut after level levels.
RECURSIVE processItems(_, _, _, _, _)
processDAMData(n, level, basePath, currentDepth, st) ==
  IF level < 1 THEN st
  ELSE processItems(Children(n), level, basePath, currentDepth, st)

processItems(keys, level, basePath, currentDepth, st) ==
  IF keys = <<>> THEN st
  ELSE IF SystemKey(Head(keys))
  THEN processItems(Tail(keys), level, basePath, currentDepth, st)
  ELSE
    LET c == Head(keys)
        itemPath == ItemPath(c, basePath)
        recorded == isAsset(c) /\ extractAssetInfo(c) /\ isValidAsset(c)
        st1 == IF recorded
               THEN [st EXCEPT !.assets = MapSet(@, itemPath), !.total = @ + 1]
               ELSE st
    IN IF recorded /\ TestLimitReached(st1.total) THEN st1
       ELSE
         LET st2 == IF /\ isFolder(c)
                       /\ itemPath \notin st1.processed
                       /\ currentDepth < maxDepth
                       /\ ~TestLimitReached(st1.total)
                    THEN [st1 EXCEPT !.queue = Append(@, itemPath)]
                    ELSE st1
             st3 == IF /\ isFolder(c)
                       /\ ExploreNested(currentDepth)
                       /\ ~TestLimitReached(st2.total)
                    THEN processDAMData(c, level - 1, itemPath, currentDepth + 1, st2)
                    ELSE st2
         IN processItems(Tail(keys), level, basePath, currentDepth, st3)

\* Object.keys(data).filter(k => !k.startsWith('jcr:') && !k.startsWith(':')).length
\* a folder with quirk "wide" has LargeItems + 1 more children, none of them
\* an asset or a folder
ItemCount(n, level) ==
  IF level < 1 THEN 0
  ELSE Len(SelectSeq(Children(n), LAMBDA c : ~SystemKey(c)))
         + (IF quirk = <<n, "wide">> THEN LargeItems + 1 ELSE 0)

\* "if (itemCount > maxItems)"
MoreItems_OrAsMany(itemCount, maxItems) == itemCount >= maxItems

MoreItems(itemCount, maxItems) == itemCount > maxItems

\* the loop over jsonDepths in scanFolder; b = [best, maxItems, asked]:
\* bestData, maxItems and the number of hints requested
RECURSIVE SelectFrom(_, _, _, _)
SelectFrom(resp, n, i, b) ==
  IF i > Len(resp) THEN b
  ELSE IF resp[i] = Fail THEN SelectFrom(resp, n, i + 1, [b EXCEPT !.asked = i])
  ELSE LET itemCount == ItemCount(n, resp[i]) IN
       IF MoreItems(itemCount, b.maxItems)
       THEN IF itemCount > LargeItems
            THEN [best |-> resp[i], maxItems |-> itemCount, asked |-> i]
            ELSE SelectFrom(resp, n, i + 1,
                            [best |-> resp[i], maxItems |-> itemCount, asked |-> i])
       ELSE SelectFrom(resp, n, i + 1, [b EXCEPT !.asked = i])

NoneYet == [best |-> Fail, maxItems |-> 0, asked |-> 0]

\* level of the listing scanFolder keeps as bestData (Fail: none)
BestData(resp, n) ==
  IF n = NoNode THEN Fail
  ELSE SelectFrom(resp, n, 1, NoneYet).best

\* scanFolder(folderPath) followed hint by hint: the first k hints fail
Probe ==
  /\ phase = "idle"
  /\ probes = <<>>
  /\ \E n \in {0} \cup {m \in Nodes : isFolder(m)}, k \in 0..Len(JsonDepths) :
       LET resp == Responses(JsonDepths, k)
       IN probes' = <<[path |-> PathOf(n), failed |-> k,
                       best |-> BestData(resp, n),
                       asked |-> SelectFrom(resp, n, 1, NoneYet).asked]>>
  /\ UNCHANGED <<envVars, runVars, dlVars, phase, searchVars, folderQueue, processedPaths,
                 discoveredAssets, totalAssets, foldersScanned, foundAssets, fetchLog,
                 fetchFailed, fetchLevel, checks, infos>>

\* scanFolder(folderPath) as discoverAllAssets calls it: depth is always 0
scanFolder(folderPath, resp, st) ==
  LET depth == 0
      n == NodeAt(folderPath)
      best == BestData(resp, n)
  IN IF depth > maxDepth \/ best = Fail THEN st
     ELSE processDAMData(n, best, folderPath, depth, st)

\* ------------------------------------------------------------------
\* discoverAllAssets
\* ------------------------------------------------------------------
\* "if (config.processedPaths.has(currentPath)) continue"
AlreadyProcessed_NeverSkips(currentPath) == FALSE

AlreadyProcessed(currentPath) == currentPath \in processedPaths

\* the backend is unchanged since the first run: a path fetched then is
\* answered as it was then
SameAnswer(path, best) ==
  \A i \in 1..Len(firstRun.log) : firstRun.log[i] = path => firstRun.levels[i] = best

\* a folder with children for which no depth hint gave a listing
NoListing(currentPath, best) ==
  best = Fail /\ NodeAt(currentPath) # NoNode /\ Children(NodeAt(currentPath)) # <<>>

\* config.folderQueue.push('/content/dam')
StartDiscovery ==
  /\ phase = "idle"
  /\ phase' = "discover"
  /\ folderQueue' = Append(folderQueue, Root)
  /\ UNCHANGED <<envVars, runVars, dlVars, searchVars, processedPaths, discoveredAssets, totalAssets,
                 foldersScanned, foundAssets, fetchLog, fetchFailed, fetchLevel, probes, checks, infos>>

\* one turn of the while loop whose path was processed before: "continue"
DiscoverSkip_NoShift ==
  /\ phase = "discover"
  /\ folderQueue # <<>>
  /\ AlreadyProcessed(Head(folderQueue))
  /\ UNCHANGED vars

DiscoverSkip ==
  /\ phase = "discover"
  /\ folderQueue # <<>>
  /\ AlreadyProcessed(Head(folderQueue))
  /\ folderQueue' = Tail(folderQueue)
  /\ UNCHANGED <<envVars, runVars, dlVars, phase, searchVars, processedPaths, discoveredAssets,
                 totalAssets, foldersScanned, foundAssets, fetchLog, fetchFailed, fetchLevel, probes, checks, infos>>

\* one turn of the while loop that scans the folder taken from the queue
DiscoverScan ==
  /\ phase = "discover"
  /\ folderQueue # <<>>
  /\ ~AlreadyProcessed(Head(folderQueue))
  /\ \E k \in 0..Len(JsonDepths) :
       LET currentPath == Head(folderQueue)
           resp == Responses(JsonDepths, k)
           best == BestData(resp, NodeAt(currentPath))
           st == scanFolder(currentPath, resp,
                            [queue |-> Tail(folderQueue),
                             processed |-> processedPaths \cup {currentPath},
                             assets |-> discoveredAssets,
                             total |-> totalAssets])
       IN /\ SameAnswer(currentPath, best)
          /\ processedPaths' = st.processed
          /\ fetchLog' = Append(fetchLog, currentPath)
          /\ fetchLevel' = Append(fetchLevel, best)
          /\ foldersScanned' = IF 0 > maxDepth THEN foldersScanned ELSE foldersScanned + 1
          /\ fetchFailed' = IF NoListing(currentPath, best)
                            THEN fetchFailed \cup {currentPath} ELSE fetchFailed
          /\ folderQueue' = st.queue
          /\ discoveredAssets' = st.assets
          /\ totalAssets' = st.total
          /\ phase' = IF TestLimitReached(st.total) THEN "discovered" ELSE "discover"
  /\ UNCHANGED <<envVars, runVars, dlVars, searchVars, foundAssets, probes, checks, infos>>

\* the while loop ends on an empty queue
DiscoverEnd ==
  /\ phase = "discover"
  /\ folderQueue = <<>>
  /\ phase' = "discovered"
  /\ UNCHANGED <<envVars, runVars, dlVars, searchVars, folderQueue, processedPaths, discoveredAssets,
                 totalAssets, foldersScanned, foundAssets, fetchLog, fetchFailed, fetchLevel, probes, checks, infos>>

\* what discoverAllAssets returns: Array.from(config.discoveredAssets.values()),
\* in test mode sliced to the first testLimit records
allAssets ==
  IF testMode
  THEN SubSeq(discoveredAssets, 1, Min(testLimit, Len(discoveredAssets)))
  ELSE discoveredAssets

\* ------------------------------------------------------------------
\* findAssets: searchInFolder / searchInDAMData / checkPatternMatch
\* ------------------------------------------------------------------
\* the pattern is found in the asset's path (it is the name of a segment)
checkPatternMatch(assetPath, pat) == pat = 0 \/ pat \in Range(assetPath)

\* --- checkPatternMatch on the text of the fields -------------------
\* a text is a sequence of characters; undefined is a value of its own
Undefined == <<"undefined">>
NameChars == {"a", "A", "."}
PatternChars == {"a", "b", "B", "/"}
Texts(chars, lo, hi) == UNION {[1..n -> chars] : n \in lo..hi}
DamRoot == <<"/", "d">>            \* stands for "/content/dam"

\* String.prototype.toLowerCase
toLowerCase(s) ==
  [i \in 1..Len(s) |-> IF s[i] = "A" THEN "a" ELSE IF s[i] = "B" THEN "b" ELSE s[i]]

\* String.prototype.includes
includes(s, p) == \E i \in 0..(Len(s) - Len(p)) : SubSeq(s, i + 1, i + Len(p)) = p

\* index of the last c in s (0: none)
LastIndexOf(s, c) ==
  IF \E i \in 1..Len(s) : s[i] = c
  THEN CHOOSE i \in 1..Len(s) : s[i] = c /\ \A j \in (i + 1)..Len(s) : s[j] # c
  ELSE 0

\* path.basename(p) of a path that does not end with a slash
basename(p) == SubSeq(p, LastIndexOf(p, "/") + 1, Len(p))

\* path.extname(p): from the last dot of the basename, unless the basename
\* has no dot, begins with its only dot, or is ".."
extname(p) ==
  LET name == basename(p)
      dot == LastIndexOf(name, ".")
  IN IF dot <= 1 \/ name = <<".", ".">> THEN <<>> ELSE SubSeq(name, dot, Len(name))

\* path.basename(p, ext)
basenameWithout(p, ext) ==
  LET name == basename(p)
  IN IF ext # <<>> /\ Len(ext) < Len(name)
        /\ SubSeq(name, Len(name) - Len(ext) + 1, Len(name)) = ext
     THEN SubSeq(name, 1, Len(name) - Len(ext))
     ELSE name

\* String.prototype.split('/')
RECURSIVE split(_)
split(s) ==
  LET slash == LastIndexOf(s, "/")
  IN IF slash = 0 THEN <<s>>
     ELSE Append(split(SubSeq(s, 1, slash - 1)), SubSeq(s, slash + 1, Len(s)))

\* String(array): the items joined with commas
RECURSIVE join(_)
join(items) ==
  IF items = <<>> THEN <<>>
  ELSE IF Len(items) = 1 THEN items[1]
  ELSE items[1] \o <<",">> \o join(Tail(items))

\* a value a condition takes as true: a non-empty text
Truthy(v) == v # Undefined /\ v # <<>>

\* extractAssetInfo: the fields checkPatternMatch reads; node holds the
\* metadata dc:title, dc:description (texts) and dc:subject (an array of
\* texts, which is true even when empty); jcr:title, jcr:description and
\* pdf:Keywords are absent
assetInfoOf(assetPath, node) ==
  [path |-> assetPath,
   name |-> basename(assetPath),
   title |-> IF Truthy(node.title) THEN node.title ELSE basename(assetPath),
   description |-> IF Truthy(node.description) THEN node.description ELSE Undefined,
   keywords |-> node.subject]

\* the checks array of checkPatternMatch, in order
checksOf(assetInfo) ==
  <<[value |-> toLowerCase(assetInfo.path), reason |-> "Full path match"],
    [value |-> toLowerCase(assetInfo.name), reason |-> "Filename match"],
    [value |-> toLowerCase(basenameWithout(assetInfo.path, extname(assetInfo.path))),
     reason |-> "Filename without extension match"]>>
  \o (IF Truthy(assetInfo.title)
      THEN <<[value |-> toLowerCase(assetInfo.title), reason |-> "Title match"]>>
      ELSE <<>>)
  \o (IF Truthy(assetInfo.description)
      THEN <<[value |-> toLowerCase(assetInfo.description), reason |-> "Description match"]>>
      ELSE <<>>)
  \o (IF assetInfo.keywords # Undefined
      THEN <<[value |-> toLowerCase(join(assetInfo.keywords)), reason |-> "Keywords match"]>>
      ELSE <<>>)

NoReason == "null"

\* the first check whose value includes the pattern, then the path segments
checkPatternMatchReason(assetInfo, pat) ==
  LET cs == checksOf(assetInfo)
      hit == {i \in 1..Len(cs) : includes(cs[i].value, pat)}
      segments == split(toLowerCase(assetInfo.path))
  IN IF hit # {} THEN cs[CHOOSE i \in hit : \A j \in hit : i <= j].reason
     ELSE IF \E x \in 1..Len(segments) : includes(segments[x], pat)
     THEN "Path segment match"
     ELSE NoReason

\* "const searchPattern = pattern.toLowerCase()" of findAssets
searchPatternOf_AsGiven(pat) == pat

searchPatternOf(pat) == toLowerCase(pat)

\* the metadata an asset node may hold
Titles == {Undefined, <<"b">>, <<"B", "a">>}
Descriptions == {Undefined, <<>>, <<"b">>}
Subjects == {Undefined, <<>>, <<<<"B">>>>, <<<<"b">>, <<"a">>>>}

\* findAssets(pat) reaches an asset node of the listing of /content/dam:
\* the call of checkPatternMatch in searchInDAMData
CheckMatch ==
  /\ phase = "idle"
  /\ checks = <<>>
  /\ \E name \in Texts(NameChars, 1, MaxText), pat \in Texts(PatternChars, 0, MaxText),
        t \in Titles, d \in Descriptions, k \in Subjects :
       LET node == [title |-> t, description |-> d, subject |-> k]
           assetPath == DamRoot \o <<"/">> \o name
       IN checks' = <<[path |-> assetPath, node |-> node, pattern |-> pat,
                       reason |-> checkPatternMatchReason(assetInfoOf(assetPath, node),
                                                          searchPatternOf(pat))]>>
  /\ UNCHANGED <<envVars, runVars, dlVars, phase, searchVars, folderQueue, processedPaths,
                 discoveredAssets, totalAssets, foldersScanned, foundAssets, fetchLog,
                 fetchFailed, fetchLevel, probes, infos>>

\* --- the size of an asset record ------------------------------------
\* a size field of the server is a text (a JSON number is parsed as its
\* decimal text) or undefined
SizeChars == {"-", "0", "1", "x"}
Digits == {"0", "1"}
NaN == [nan |-> TRUE, v |-> 0]
Number(n) == [nan |-> FALSE, v |-> n]

\* the value of a text of digits
RECURSIVE Decimal(_)
Decimal(ds) ==
  IF ds = <<>> THEN 0
  ELSE 10 * Decimal(SubSeq(ds, 1, Len(ds) - 1)) + (IF ds[Len(ds)] = "1" THEN 1 ELSE 0)

\* the longest prefix of digits
RECURSIVE DigitPrefix(_)
DigitPrefix(t) ==
  IF t = <<>> \/ t[1] \notin Digits THEN <<>> ELSE <<t[1]>> \o DigitPrefix(Tail(t))

\* parseInt(value): undefined becomes the text "undefined"; an optional
\* sign, then the digits up to the first other character; NaN without digits
parseInt(value) ==
  LET t == IF value = Undefined THEN <<"u">> ELSE value
      negative == t # <<>> /\ t[1] = "-"
      ds == DigitPrefix(IF negative THEN Tail(t) ELSE t)
  IN IF ds = <<>> THEN NaN
     ELSE Number(IF negative THEN 0 - Decimal(ds) ELSE Decimal(ds))

\* a number a condition takes as false: NaN and 0
Falsy(n) == n.nan \/ n.v = 0

\* "size: parseInt(allMetadata['dam:size']) || parseInt(jcrContent['dam:size'])
\*  || parseInt(allMetadata['dam:Filedata.sizeOnDisk']) || 0"; allMetadata
\* holds the field of the metadata node or else that of jcr:content
sizeOf(node) ==
  LET allMetadataSize == IF node.metadataSize # Undefined THEN node.metadataSize
                         ELSE node.contentSize
      a == parseInt(allMetadataSize)
      b == parseInt(node.contentSize)
      c == parseInt(node.sizeOnDisk)
  IN IF ~Falsy(a) THEN a.v ELSE IF ~Falsy(b) THEN b.v ELSE IF ~Falsy(c) THEN c.v ELSE 0

SizeFields == {Undefined} \cup Texts(SizeChars, 0, MaxText)

\* extractAssetInfo(assetNode, assetPath) makes a record
ExtractInfo ==
  /\ phase = "idle"
  /\ infos = <<>>
  /\ \E m \in SizeFields, j \in SizeFields, d \in SizeFields :
       LET node == [metadataSize |-> m, contentSize |-> j, sizeOnDisk |-> d]
       IN infos' = <<[by |-> "extractAssetInfo", node |-> node, size |-> sizeOf(node)]>>
  /\ UNCHANGED <<envVars, runVars, dlVars, phase, searchVars, folderQueue, processedPaths,
                 discoveredAssets, totalAssets, foldersScanned, foundAssets, fetchLog,
                 fetchFailed, fetchLevel, probes, checks>>

\* createAssetInfoFromPath(assetPath) makes a record: "size: 0"
CreateInfo ==
  /\ phase = "idle"
  /\ infos = <<>>
  /\ infos' = <<[by |-> "createAssetInfoFromPath",
                 node |-> [metadataSize |-> Undefined, contentSize |-> Undefined,
                           sizeOnDisk |-> Undefined],
                 size |-> 0]>>
  /\ UNCHANGED <<envVars, runVars, dlVars, phase, searchVars, folderQueue, processedPaths,
                 discoveredAssets, totalAssets, foldersScanned, foundAssets, fetchLog,
                 fetchFailed, fetchLevel, probes, checks>>

\* st = [queue, processed, matches]
RECURSIVE searchItems(_, _, _, _, _)
searchInDAMData(n, level, basePath, pat, st) ==
  IF level < 1 THEN st
  ELSE searchItems(Children(n), level, basePath, pat, st)

searchItems(keys, level, basePath, pat, st) ==
  IF keys = <<>> THEN st
  ELSE IF SystemKey(Head(keys)) THEN searchItems(Tail(keys), level, basePath, pat, st)
  ELSE
    LET c == Head(keys)
        itemPath == ItemPath(c, basePath)
        checked == isAsset(c) /\ extractAssetInfo(c)
        st1 == IF checked /\ checkPatternMatch(itemPath, pat)
               THEN [st EXCEPT !.matches = Append(@, itemPath)]
               ELSE st
        st2 == IF isFolder(c) /\ itemPath \notin st1.processed
               THEN [st1 EXCEPT !.queue = Append(@, itemPath)]
               ELSE st1
        st3 == IF isFolder(c)
               THEN searchInDAMData(c, level - 1, itemPath, pat, st2)
               ELSE st2
    IN IF checked /\ MatchThrows(c) THEN [st EXCEPT !.threw = TRUE]
       ELSE IF st3.threw THEN st3
       ELSE searchItems(Tail(keys), level, basePath, pat, st3)

\* the loop over jsonDepths in searchInFolder: the first response that is an
\* object is used
RECURSIVE FirstResponse(_, _)
FirstResponse(resp, i) ==
  IF i > Len(resp) THEN Fail
  ELSE IF resp[i] # Fail THEN resp[i] ELSE FirstResponse(resp, i + 1)

searchInFolder(folderPath, resp, pat, st) ==
  LET n == NodeAt(folderPath)
      bestData == IF n = NoNode THEN Fail ELSE FirstResponse(resp, 1)
  IN IF bestData = Fail THEN st
     ELSE searchInDAMData(n, bestData, folderPath, pat, st)

\* matches.forEach: a path not yet in searchResults is added to foundAssets
RECURSIVE AddMatches_NoDedup(_, _)
AddMatches_NoDedup(found, matches) ==
  IF matches = <<>> THEN found
  ELSE AddMatches_NoDedup(Append(found, Head(matches)), Tail(matches))

RECURSIVE AddMatches(_, _)
AddMatches(found, matches) ==
  IF matches = <<>> THEN found
  ELSE AddMatches(MapSet(found, Head(matches)), Tail(matches))

\* the backend is unchanged since a discovery run: of the hints of a path
\* fetched then, which are the first hints of searchInFolder too, as many
\* fail now as failed then
SameBackend(path, k) ==
  \A i \in 1..Len(firstRun.log) :
    firstRun.log[i] = path =>
      \E kd \in 0..Len(JsonDepths) :
        /\ BestData(Responses(JsonDepths, kd), NodeAt(path)) = firstRun.levels[i]
        /\ k = Min(kd, Len(SearchJsonDepths))

\* findAssets(pattern): config.folderQueue.push('/content/dam')
StartFind ==
  /\ phase = "idle"
  /\ \E pat \in 0..MaxPattern : pattern' = pat
  /\ phase' = "find"
  /\ folderQueue' = Append(folderQueue, Root)
  /\ UNCHANGED <<envVars, runVars, dlVars, patterns, matchedPattern, processedPaths, discoveredAssets, totalAssets,
                 foldersScanned, foundAssets, fetchLog, fetchFailed, fetchLevel, probes, checks, infos>>

FindSkip ==
  /\ phase = "find"
  /\ folderQueue # <<>>
  /\ AlreadyProcessed(Head(folderQueue))
  /\ folderQueue' = Tail(folderQueue)
  /\ UNCHANGED <<envVars, runVars, dlVars, phase, searchVars, processedPaths, discoveredAssets,
                 totalAssets, foldersScanned, foundAssets, fetchLog, fetchFailed, fetchLevel, probes, checks, infos>>

FindScan ==
  /\ phase = "find"
  /\ folderQueue # <<>>
  /\ ~AlreadyProcessed(Head(folderQueue))
  /\ \E k \in 0..Len(SearchJsonDepths) :
       LET currentPath == Head(folderQueue)
           resp == Responses(SearchJsonDepths, k)
           best == IF NodeAt(currentPath) = NoNode THEN Fail ELSE FirstResponse(resp, 1)
           st == searchInFolder(currentPath, resp, pattern,
                                [queue |-> Tail(folderQueue),
                                 processed |-> processedPaths \cup {currentPath},
                                 matches |-> <<>>, threw |-> FALSE])
       IN /\ SameBackend(currentPath, k)
          /\ processedPaths' = st.processed
          /\ phase' = IF st.threw THEN "threw" ELSE phase
          /\ fetchLog' = Append(fetchLog, currentPath)
          /\ foldersScanned' = foldersScanned + 1
          /\ fetchFailed' = IF NoListing(currentPath, best)
                            THEN fetchFailed \cup {currentPath} ELSE fetchFailed
          /\ folderQueue' = st.queue
          /\ foundAssets' = IF st.threw THEN foundAssets
                            ELSE AddMatches(foundAssets, st.matches)
  /\ UNCHANGED <<envVars, runVars, dlVars, searchVars, discoveredAssets, totalAssets,
                 fetchLevel, probes, checks, infos>>

FindEnd ==
  /\ phase = "find"
  /\ folderQueue = <<>>
  /\ phase' = "found"
  /\ UNCHANGED <<envVars, runVars, dlVars, searchVars, folderQueue, processedPaths, discoveredAssets,
                 totalAssets, foldersScanned, foundAssets, fetchLog, fetchFailed, fetchLevel, probes, checks, infos>>

\* ------------------------------------------------------------------
\* findMultipleAssets: searchInFolderMultiple / searchInDAMDataMultiple
\* ------------------------------------------------------------------
NoPattern == 0 - 1

\* "for (const pattern of patterns)": the asset is matched by the last pattern
\* that matches it
RECURSIVE FirstMatch_NoBreak(_, _)
FirstMatch_NoBreak(assetPath, pats) ==
  IF pats = <<>> THEN NoPattern
  ELSE IF checkPatternMatch(assetPath, pats[Len(pats)]) THEN pats[Len(pats)]
  ELSE FirstMatch_NoBreak(assetPath, SubSeq(pats, 1, Len(pats) - 1))

\* "for (const pattern of patterns)": the pattern at which the loop breaks
RECURSIVE FirstMatch(_, _)
FirstMatch(assetPath, pats) ==
  IF pats = <<>> THEN NoPattern
  ELSE IF checkPatternMatch(assetPath, Head(pats)) THEN Head(pats)
  ELSE FirstMatch(assetPath, Tail(pats))

\* st = [queue, processed, matches], a match being [path, matchedPattern]
RECURSIVE searchItemsMultiple(_, _, _, _, _)
searchInDAMDataMultiple(n, level, basePath, pats, st) ==
  IF level < 1 THEN st
  ELSE searchItemsMultiple(Children(n), level, basePath, pats, st)

searchItemsMultiple(keys, level, basePath, pats, st) ==
  IF keys = <<>> THEN st
  ELSE IF SystemKey(Head(keys))
  THEN searchItemsMultiple(Tail(keys), level, basePath, pats, st)
  ELSE
    LET c == Head(keys)
        itemPath == ItemPath(c, basePath)
        hit == FirstMatch(itemPath, pats)
        checked == isAsset(c) /\ extractAssetInfo(c)
        st1 == IF checked /\ hit # NoPattern
               THEN [st EXCEPT !.matches =
                       Append(@, [path |-> itemPath, matchedPattern |-> hit])]
               ELSE st
        st2 == IF isFolder(c) /\ itemPath \notin st1.processed
               THEN [st1 EXCEPT !.queue = Append(@, itemPath)]
               ELSE st1
        st3 == IF isFolder(c)
               THEN searchInDAMDataMultiple(c, level - 1, itemPath, pats, st2)
               ELSE st2
    IN IF checked /\ MatchThrows(c) THEN [st EXCEPT !.threw = TRUE]
       ELSE IF st3.threw THEN st3
       ELSE searchItemsMultiple(Tail(keys), level, basePath, pats, st3)

searchInFolderMultiple(folderPath, resp, pats, st) ==
  LET n == NodeAt(folderPath)
      bestData == IF n = NoNode THEN Fail ELSE FirstResponse(resp, 1)
  IN IF bestData = Fail THEN st
     ELSE searchInDAMDataMultiple(n, bestData, folderPath, pats, st)

\* matches.forEach of findMultipleAssets; f = [found, matched]
RECURSIVE AddMatchesMultiple(_, _)
AddMatchesMultiple(f, matches) ==
  IF matches = <<>> THEN f
  ELSE LET m == Head(matches)
       IN AddMatchesMultiple(
            IF m.path \in Range(f.found) THEN f
            ELSE [found |-> Append(f.found, m.path),
                  matched |-> Append(f.matched, m.matchedPattern)],
            Tail(matches))

\* pattern lists the caller may give: one or two different patterns
PatternLists ==
  {<<x>> : x \in 0..MaxPattern} \cup
  ({<<x, y>> : x \in 0..MaxPattern, y \in 0..MaxPattern} \ {<<x, x>> : x \in 0..MaxPattern})

\* findMultipleAssets(patterns): config.folderQueue.push('/content/dam')
StartFindMultiple ==
  /\ phase = "idle"
  /\ \E pats \in PatternLists : patterns' = pats
  /\ phase' = "findm"
  /\ folderQueue' = Append(folderQueue, Root)
  /\ UNCHANGED <<envVars, runVars, dlVars, pattern, matchedPattern, processedPaths,
                 discoveredAssets, totalAssets, foldersScanned, foundAssets, fetchLog,
                 fetchFailed, fetchLevel, probes, checks, infos>>

FindMultipleSkip ==
  /\ phase = "findm"
  /\ folderQueue # <<>>
  /\ AlreadyProcessed(Head(folderQueue))
  /\ folderQueue' = Tail(folderQueue)
  /\ UNCHANGED <<envVars, runVars, dlVars, phase, searchVars, processedPaths,
                 discoveredAssets, totalAssets, foldersScanned, foundAssets, fetchLog,
                 fetchFailed, fetchLevel, probes, checks, infos>>

FindMultipleScan ==
  /\ phase = "findm"
  /\ folderQueue # <<>>
  /\ ~AlreadyProcessed(Head(folderQueue))
  /\ \E k \in 0..Len(SearchJsonDepths) :
       LET currentPath == Head(folderQueue)
           resp == Responses(SearchJsonDepths, k)
           best == IF NodeAt(currentPath) = NoNode THEN Fail ELSE FirstResponse(resp, 1)
           st == searchInFolderMultiple(currentPath, resp, patterns,
                                        [queue |-> Tail(folderQueue),
                                         processed |-> processedPaths \cup {currentPath},
                                         matches |-> <<>>, threw |-> FALSE])
           f == IF st.threw THEN [found |-> foundAssets, matched |-> matchedPattern]
                ELSE AddMatchesMultiple([found |-> foundAssets, matched |-> matchedPattern],
                                        st.matches)
       IN /\ processedPaths' = st.processed
          /\ phase' = IF st.threw THEN "threw" ELSE phase
          /\ fetchLog' = Append(fetchLog, currentPath)
          /\ fetchLevel' = Append(fetchLevel, best)
          /\ foldersScanned' = foldersScanned + 1
          /\ fetchFailed' = IF NoListing(currentPath, best)
                            THEN fetchFailed \cup {currentPath} ELSE fetchFailed
          /\ folderQueue' = st.queue
          /\ foundAssets' = f.found
          /\ matchedPattern' = f.matched
  /\ UNCHANGED <<envVars, runVars, dlVars, pattern, patterns, discoveredAssets,
                 totalAssets, probes, checks, infos>>

FindMultipleEnd ==
  /\ phase = "findm"
  /\ folderQueue = <<>>
  /\ phase' = "foundm"
  /\ UNCHANGED <<envVars, runVars, dlVars, searchVars, folderQueue, processedPaths,
                 discoveredAssets, totalAssets, foldersScanned, foundAssets, fetchLog,
                 fetchFailed, fetchLevel, probes, checks, infos>>

\* ------------------------------------------------------------------
\* downloadAsset
\* ------------------------------------------------------------------
Abs(x) == IF x < 0 THEN 0 - x ELSE x

\* what outputPath holds: its size and who wrote it
\*   "none": no file, "old": there before the run,
\*   "cut": a transfer that failed, "done": a transfer that finished
Absent == [size |-> 0 - 1, by |-> "none"]
Exists(f) == f.size >= 0

\* lines 1238-1252: the asset is skipped as already downloaded
SkipExisting_SizeOnly(size, f) == Exists(f) /\ f.size > MinExisting

SkipExisting(size, f) ==
  /\ Exists(f)
  /\ \/ size > 0 /\ Abs(f.size - size) < Tolerance
     \/ f.size > MinExisting

\* makeRequestWithRetry: results[i] is whether the i-th request succeeds
RECURSIVE makeRequestWithRetry(_, _)
makeRequestWithRetry(results, attempt) ==
  IF results[attempt] THEN [ok |-> TRUE, requests |-> attempt]
  ELSE IF attempt < retryAttempts THEN makeRequestWithRetry(results, attempt + 1)
  ELSE [ok |-> FALSE, requests |-> attempt]

\* what one request (makeRequest) does: it resolves, or rejects with
\* "HTTP 404", "HTTP 500" or "Request timeout"
Results == {"ok", "http404", "http500", "timeout"}

\* no makeRequestWithRetry call was followed yet
NoCall == [url |-> 0, cur |-> <<>>, state |-> "none", error |-> "none",
           count |-> [u \in 1..NumUrls |-> 0], slept |-> <<>>]

\* "const delay = config.retryDelay * attempt"
delay_Constant(attempt) == retryDelay

delay(attempt) == retryDelay * attempt

\* one turn of makeRequestWithRetry: the request of this attempt gave r
retryStep_OneMore(attempt, r) ==
  IF r = "ok" THEN "returned"
  ELSE IF attempt <= retryAttempts THEN "pending"
  ELSE "threw"

retryStep(attempt, r) ==
  IF r = "ok" THEN "returned"
  ELSE IF attempt < retryAttempts THEN "pending"
  ELSE "threw"

\* what one candidate URL does:
\*   "refused": every request fails, "full": a payload of PayloadBytes,
\*   "empty": a payload of no bytes, "cut": the stream breaks after
\*   PartialBytes, "cut0": the stream breaks before the first byte
Outcomes == {"refused", "full", "empty", "cut", "cut0"}
Streams == Outcomes \ {"refused"}
Bytes(o) == IF o = "full" THEN PayloadBytes ELSE IF o = "cut" THEN PartialBytes ELSE 0
Breaks(o) == o \in {"cut", "cut0"}

\* s: the locals of one downloadAsset call and what it adds to config.stats
\*   [file, url, downloaded, lastError, done, threw, dDown, dSize, dSkip, dFail, errs]
NewCall(f) ==
  [file |-> f, url |-> 1, downloaded |-> FALSE, lastError |-> "none",
   done |-> FALSE, threw |-> FALSE,
   dDown |-> 0, dSize |-> 0, dSkip |-> 0, dFail |-> 0, errs |-> <<>>]

\* the catch of the loop over urlPatterns (lines 1288-1293)
urlCatch(s, error) ==
  [s EXCEPT !.lastError = error,
            !.file = IF s.file.size = 0 THEN Absent ELSE @]

\* "if (downloadedSize > 0)"
HasPayload_Always(downloadedSize) == TRUE

HasPayload(downloadedSize) == downloadedSize > 0

\* the body of the loop over urlPatterns for one URL (lines 1268-1293)
attemptUrl(s, o) ==
  IF o = "refused" THEN urlCatch(s, "http")
  ELSE LET written == [s EXCEPT !.file = [size |-> Bytes(o),
                                           by |-> IF Breaks(o) THEN "cut" ELSE "done"]]
       IN IF Breaks(o) THEN urlCatch(written, "stream")
          ELSE IF HasPayload(written.file.size)
               THEN [written EXCEPT !.downloaded = TRUE,
                                    !.dDown = @ + 1,
                                    !.dSize = @ + written.file.size]
               ELSE written

\* the catch of downloadAsset (lines 1357-1365)
outerCatch_Rethrows(s, message) == [s EXCEPT !.done = TRUE, !.threw = TRUE]

outerCatch(s, message) ==
  [s EXCEPT !.dFail = @ + 1, !.errs = Append(@, message), !.done = TRUE]

\* lines 1296-1355: after the loop
afterUrls(s, metaOk) ==
  IF ~s.downloaded
  THEN outerCatch(s, IF s.lastError = "none" THEN "generic" ELSE s.lastError)
  ELSE IF downloadMetadata /\ ~metaOk THEN outerCatch(s, "fs")
  ELSE [s EXCEPT !.done = TRUE]

\* one turn of the loop over urlPatterns and, when it was the last one, the
\* rest of downloadAsset
tryUrl_NoBreak(s, o, metaOk) ==
  LET s1 == attemptUrl(s, o)
  IN IF s.url = NumUrls THEN afterUrls(s1, metaOk)
     ELSE [s1 EXCEPT !.url = @ + 1]

tryUrl(s, o, metaOk) ==
  LET s1 == attemptUrl(s, o)
  IN IF s1.downloaded \/ s.url = NumUrls THEN afterUrls(s1, metaOk)
     ELSE [s1 EXCEPT !.url = @ + 1]

\* downloadAsset up to its first await
beginAsset(size, f) ==
  IF SkipExisting(size, f)
  THEN [NewCall(f) EXCEPT !.dSkip = 1, !.done = TRUE]
  ELSE NewCall(f)

\* the whole loop: outs[i] is what candidate URL i does
RECURSIVE tryUrls(_, _, _)
tryUrls(s, outs, metaOk) ==
  IF s.done THEN s ELSE tryUrls(tryUrl(s, outs[s.url], metaOk), outs, metaOk)

\* ------------------------------------------------------------------
\* downloadRenditions
\* ------------------------------------------------------------------
NumRenditionUrls == 2

\* the names extractAssetInfo may list in assetInfo.renditions
RenditionNames == {"original", "cq5dam.metadata.xml", "cq5dam.web.png", "cq5dam.zoom.png"}

\* "if (rendition === 'original' || rendition.includes('metadata')) continue"
SkipRendition(rendition) == rendition \in {"original", "cq5dam.metadata.xml"}

\* no downloadRenditions call
NoRenditions == [names |-> <<>>, tried |-> <<>>, pending |-> FALSE]

\* the loop over the two URLs of one rendition; outs[i] is what URL i does.
\* A refused request throws and the inner catch goes on to the next URL;
\* an empty file goes on to the next URL; a payload breaks out of the loop.
\* A transfer that breaks ends neither the writer nor the awaited promise,
\* which listens to 'finish' and 'error' of the writer only: the call stays
\* at that await.
\* result: [asked: the URLs requested, pending: the await cannot finish]
RECURSIVE renditionUrls(_, _)
renditionUrls(outs, url) ==
  IF url > NumRenditionUrls THEN [asked |-> <<>>, pending |-> FALSE]
  ELSE LET o == outs[url]
           rest == IF o = "full" \/ Breaks(o)
                   THEN [asked |-> <<>>, pending |-> Breaks(o)]
                   ELSE renditionUrls(outs, url + 1)
       IN [asked |-> <<o>> \o rest.asked, pending |-> rest.pending]

\* the loop over assetInfo.renditions; dirOk: ensureDirectory(renditionsDir),
\* the same directory for every rendition, succeeds; otherwise it throws
\* into the silent catch of the rendition
RECURSIVE renditionLoop(_, _, _, _)
renditionLoop(names, outs, dirOk, r) ==
  IF r > Len(names) THEN [tried |-> <<>>, pending |-> FALSE]
  ELSE IF SkipRendition(names[r]) THEN renditionLoop(names, outs, dirOk, r + 1)
  ELSE LET one == IF dirOk THEN renditionUrls(outs[r], 1)
                  ELSE [asked |-> <<>>, pending |-> FALSE]
           rest == IF one.pending THEN [tried |-> <<>>, pending |-> TRUE]
                   ELSE renditionLoop(names, outs, dirOk, r + 1)
       IN [tried |-> <<[name |-> names[r], asked |-> one.asked]>> \o rest.tried,
           pending |-> rest.pending]

\* downloadRenditions(assetInfo, outputDir)
downloadRenditionsOf(names, outs, dirOk) ==
  IF ~downloadRenditions \/ Len(names) = 0 THEN NoRenditions
  ELSE LET l == renditionLoop(names, outs, dirOk, 1)
       IN [names |-> names, tried |-> l.tried, pending |-> l.pending]

\* ------------------------------------------------------------------
\* downloadAllAssets
\* ------------------------------------------------------------------
Assets == DOMAIN expected
Running == {a \in Assets : task[a].st = "running"}
Settled == {a \in Assets : task[a].st = "settled"}

Remove(q, a) == SelectSeq(q, LAMBDA x : x # a)

\* adds what a downloadAsset call did to config.stats
Record(a, s) ==
  /\ file' = [file EXCEPT ![a] = s.file]
  /\ downloadedAssets' = downloadedAssets + s.dDown
  /\ totalSize' = totalSize + s.dSize
  /\ skippedAssets' = skippedAssets + s.dSkip
  /\ failedAssets' = failedAssets + s.dFail
  /\ errors' = errors \o [i \in 1..Len(s.errs) |-> [asset |-> a, error |-> s.errs[i]]]
  /\ task' = [task EXCEPT ![a] =
                [st |-> IF s.threw THEN "rejected"
                        ELSE IF s.done THEN "settled" ELSE "running",
                 url |-> s.url, lastError |-> s.lastError]]

\* the call as far as it is when it awaits next
Resume(a) ==
  [NewCall(file[a]) EXCEPT !.url = task[a].url, !.lastError = task[a].lastError]

\* entry of downloadAllAssets with a non-empty list
StartDownload ==
  /\ dpc = "idle"
  /\ Len(expected) > 0
  /\ dlQueue' = IF testMode
                THEN [i \in 1..Min(testLimit, Len(expected)) |-> i]
                ELSE [i \in 1..Len(expected) |-> i]
  /\ inProgress' = <<>>
  /\ dpc' = "launch"
  /\ UNCHANGED <<envVars, runVars, crawlVars, maxConcurrent, downloadMetadata, expected,
                 existing, file, task, net, rq, rend, raceOn, statVars>>

\* "while (inProgress.length < config.maxConcurrent && queue.length > 0)"
CanLaunch_OneMore == Len(inProgress) <= maxConcurrent /\ dlQueue # <<>>

CanLaunch == Len(inProgress) < maxConcurrent /\ dlQueue # <<>>

\* one turn of the inner loop: downloadAsset(asset) runs up to its first await
Launch ==
  /\ dpc = "launch"
  /\ CanLaunch
  /\ LET a == Head(dlQueue)
     IN /\ dlQueue' = Tail(dlQueue)
        /\ inProgress' = Append(inProgress, a)
        /\ Record(a, beginAsset(expected[a], file[a]))
  /\ UNCHANGED <<envVars, runVars, crawlVars, maxConcurrent, downloadMetadata, expected,
                 existing, net, rq, rend, dpc, raceOn>>

\* the loop test of downloadAllAssets
LoopTest(q, inp) == IF q # <<>> \/ inp # <<>> THEN "launch" ELSE "done"

\* after Promise.race: "if (queue.length > 0 && inProgress.length === maxConcurrent)"
AfterWait(q, inp) ==
  IF q # <<>> /\ Len(inp) = maxConcurrent THEN "sleep" ELSE LoopTest(q, inp)

\* "if (inProgress.length > 0) await Promise.race(inProgress)"
AwaitRace ==
  /\ dpc = "launch"
  /\ ~CanLaunch
  /\ IF inProgress # <<>>
     THEN dpc' = "race" /\ raceOn' = Range(inProgress)
     ELSE dpc' = AfterWait(dlQueue, inProgress) /\ raceOn' = {}
  /\ UNCHANGED <<envVars, runVars, crawlVars, maxConcurrent, downloadMetadata, expected,
                 existing, file, task, net, rq, rend, dlQueue, inProgress, statVars>>

\* the callback given to then(): the promise leaves inProgress
ThenCallback(a) ==
  /\ dpc # "launch"
  /\ task[a].st = "settled"
  /\ inProgress' = Remove(inProgress, a)
  /\ task' = [task EXCEPT ![a].st = "removed"]
  /\ UNCHANGED <<envVars, runVars, crawlVars, maxConcurrent, downloadMetadata, expected,
                 existing, file, net, rq, rend, dpc, dlQueue, raceOn, statVars>>

\* Promise.race(inProgress) fulfils with the first promise that fulfilled
RaceWon_All == \A a \in raceOn : task[a].st = "removed"

RaceWon == \E a \in raceOn : task[a].st = "removed"
RaceLost == \E a \in raceOn : task[a].st = "rejected"

\* Promise.race settles and the driver goes on
AfterRace ==
  /\ dpc = "race"
  /\ Settled = {}
  /\ RaceWon \/ RaceLost
  /\ dpc' = IF RaceWon THEN AfterWait(dlQueue, inProgress) ELSE "threw"
  /\ raceOn' = {}
  /\ UNCHANGED <<envVars, runVars, crawlVars, maxConcurrent, downloadMetadata, expected,
                 existing, file, task, net, rq, rend, dlQueue, inProgress, statVars>>

\* "await sleep(config.sleepTime)" is over
Wake ==
  /\ dpc = "sleep"
  /\ Settled = {}
  /\ dpc' = LoopTest(dlQueue, inProgress)
  /\ UNCHANGED <<envVars, runVars, crawlVars, maxConcurrent, downloadMetadata, expected,
                 existing, file, task, net, rq, rend, dlQueue, inProgress, raceOn, statVars>>

\* an awaited request or transfer of a running download may finish: the
\* driver is suspended and no callback is waiting
NetworkEvent == dpc \in {"race", "sleep"} /\ Settled = {} /\ ~(dpc = "race" /\ (RaceWon \/ RaceLost))

\* asset a: the next candidate URL is requested and answered
TryUrl(a) ==
  /\ NetworkEvent
  /\ task[a].st = "running"
  /\ \E results \in [1..retryAttempts -> BOOLEAN], stream \in Streams, metaOk \in BOOLEAN :
       LET o == IF makeRequestWithRetry(results, 1).ok THEN stream ELSE "refused"
       IN /\ Record(a, tryUrl(Resume(a), o, metaOk))
          /\ net' = [net EXCEPT ![a] = Append(@, o)]
  /\ UNCHANGED <<envVars, runVars, crawlVars, maxConcurrent, downloadMetadata, expected,
                 existing, poolVars, rq, rend>>

\* asset a: one request for its next candidate URL is answered; when
\* makeRequestWithRetry returns or throws, downloadAsset goes on
Request(a) ==
  /\ NetworkEvent
  /\ task[a].st = "running"
  /\ \E r \in Results, stream \in {"full", "cut"}, metaOk \in BOOLEAN :
       LET u == task[a].url
           cur == IF rq.state = "pending" THEN Append(rq.cur, r) ELSE <<r>>
           before == IF rq.state = "pending" THEN rq.slept ELSE <<>>
           ended == retryStep(Len(cur), r)
       IN /\ rq' = [url |-> u, cur |-> cur, state |-> ended,
                     error |-> IF ended = "threw" THEN r ELSE "none",
                     count |-> [rq.count EXCEPT ![u] = @ + 1],
                     slept |-> IF ended = "pending"
                               THEN Append(before, delay(Len(cur))) ELSE before]
          /\ IF ended = "pending"
             THEN UNCHANGED <<file, task, net, statVars>>
             ELSE /\ Record(a, tryUrl(Resume(a),
                                      IF ended = "returned" THEN stream ELSE "refused",
                                      metaOk))
                  /\ net' = [net EXCEPT ![a] =
                               Append(@, IF ended = "returned" THEN stream ELSE "refused")]
  /\ UNCHANGED <<envVars, runVars, crawlVars, maxConcurrent, downloadMetadata, expected,
                 existing, poolVars, rend>>

\* what the backend does for the candidate URLs of one asset of a pool:
\* candidate w answers with a payload; of the others the first refuses the
\* request and the later ones do f
Candidates(f, w) ==
  [i \in 1..NumUrls |-> IF i = w THEN "full" ELSE IF i = 1 THEN "refused" ELSE f]
PoolCandidates ==
  {Candidates(f, w) : f \in {"cut", "empty"}, w \in {1, 3, NumUrls + 1}}

\* asset a: its candidate URLs are requested until the download is over
Transfer(a) ==
  /\ NetworkEvent
  /\ task[a].st = "running"
  /\ \E outs \in PoolCandidates, metaOk \in BOOLEAN :
       LET s == tryUrls(Resume(a), outs, metaOk)
       IN /\ Record(a, s)
          /\ net' = [net EXCEPT ![a] = SubSeq(outs, 1, s.url)]
  /\ UNCHANGED <<envVars, runVars, crawlVars, maxConcurrent, downloadMetadata, expected,
                 existing, poolVars, rq, rend>>

\* what extractAssetInfo may have put in assetInfo.renditions: keys of the
\* renditions node, so no name twice
RenditionLists ==
  {<<>>} \cup {l \in [1..MaxRenditions -> RenditionNames] :
               \A i, j \in 1..MaxRenditions : i # j => l[i] # l[j]}

\* what the backend does for the two URLs of one rendition
RenditionBackends ==
  {<<"refused", "refused">>, <<"refused", "full">>, <<"full", "full">>,
   <<"empty", "refused">>, <<"cut", "full">>, <<"refused", "cut">>}

\* asset a with config.downloadRenditions: its candidate URLs are requested
\* until the download is over, and when the asset was downloaded and its
\* metadata saved, downloadRenditions runs before downloadAsset returns
\* candidates, lists, backends: what the backend may do for the candidate
\* URLs, the rendition lists and what it may do for the URLs of a rendition
TransferWith(a, candidates, lists, backends) ==
  /\ NetworkEvent
  /\ task[a].st = "running"
  /\ ~rend[a].pending
  /\ \E outs \in candidates, metaOk \in BOOLEAN, names \in lists,
        routs \in [1..MaxRenditions -> backends],
        dirOk \in BOOLEAN :
       \E s \in {tryUrls(Resume(a), outs, metaOk)} :
         \E r \in {IF s.downloaded /\ s.dFail = 0
                    THEN downloadRenditionsOf(names, routs, dirOk)
                    ELSE NoRenditions} :
            /\ Record(a, [s EXCEPT !.done = ~r.pending])
            /\ net' = [net EXCEPT ![a] = SubSeq(outs, 1, s.url)]
            /\ rend' = [rend EXCEPT ![a] = r]
  /\ UNCHANGED <<envVars, runVars, crawlVars, maxConcurrent, downloadMetadata, expected,
                 existing, poolVars, rq>>

TransferRenditions(a) == TransferWith(a, PoolCandidates, RenditionLists, RenditionBackends)

\* the same with fewer cases: no rendition or MaxRenditions of them; a
\* rendition is delivered, refused, or its transfer breaks
FewLists == {<<>>, [i \in 1..MaxRenditions |-> IF i = 1 THEN "cq5dam.web.png"
                                                ELSE IF i = 2 THEN "cq5dam.zoom.png"
                                                ELSE "original"]}
FewBackends == {<<"full", "full">>, <<"refused", "refused">>, <<"refused", "cut">>}

TransferFew(a) == TransferWith(a, PoolCandidates, FewLists, FewBackends)

\* ------------------------------------------------------------------
\* main, generateReport and the SIGINT handler
\* ------------------------------------------------------------------
Alive == proc.alive

\* the summary and the error list generateReport writes
Summary(errs) ==
  [foldersScanned |-> foldersScanned, totalAssetsFound |-> totalAssets,
   downloadedAssets |-> downloadedAssets, skippedAssets |-> skippedAssets,
   failedAssets |-> failedAssets, totalSize |-> totalSize, errors |-> errs]

generateReport(errs) == reports' = Append(reports, Summary(errs))

\* the process ends: what it had begun
Exit(sig) ==
  proc' = [alive |-> FALSE, sigint |-> sig, fetches |-> Len(fetchLog),
           started |-> Cardinality({a \in Assets : task[a].st # "new"})]

\* the crawl returned to main: the assets to download, if any
MainCrawlDone ==
  /\ phase \in {"discovered", "found", "foundm"}
  /\ LET searched == phase # "discovered"
         assets == IF searched THEN foundAssets ELSE allAssets
         n == Len(assets)
     IN IF n = 0 \/ (searched /\ ~findDownload)
        THEN \* process.exit(0) at lines 1632, 1659 and 1686
             /\ Exit(FALSE)
             /\ UNCHANGED <<reports, phase, totalAssets, expected, existing, file, task, net,
                            rend>>
        ELSE /\ phase' = "download"
             /\ totalAssets' = IF searched THEN n ELSE totalAssets
             /\ expected' = [a \in 1..n |-> 0]
             /\ existing' = [a \in 1..n |-> 0 - 1]
             /\ file' = [a \in 1..n |-> Absent]
             /\ task' = [a \in 1..n |-> [st |-> "new", url |-> 1, lastError |-> "none"]]
             /\ net' = [a \in 1..n |-> <<>>]
             /\ rend' = [a \in 1..n |-> NoRenditions]
             /\ UNCHANGED <<proc, reports>>
  /\ UNCHANGED <<envVars, firstRun, searchVars, folderQueue, processedPaths,
                 discoveredAssets, foldersScanned, foundAssets, fetchLog, fetchFailed,
                 fetchLevel, probes, checks, infos, maxConcurrent, downloadMetadata, rq, poolVars, statVars>>

\* the catch of main: an exception left the crawl or the downloads
MainCatch ==
  /\ phase = "threw" \/ dpc = "threw"
  /\ errors' = Append(errors, [asset |-> 0, error |-> "fatal"])
  /\ generateReport(errors')
  /\ Exit(FALSE)
  /\ UNCHANGED <<envVars, firstRun, crawlVars, maxConcurrent, downloadMetadata, expected,
                 existing, file, task, net, rq, rend, poolVars, downloadedAssets, skippedAssets,
                 failedAssets, totalSize>>

\* downloadAllAssets returned: the final report, and main returns
MainReport ==
  /\ dpc = "done"
  /\ generateReport(errors)
  /\ Exit(FALSE)
  /\ UNCHANGED <<envVars, firstRun, crawlVars, dlVars>>

\* the process is waiting for the backend, not running its own code
Waiting ==
  \/ phase \in {"discover", "find", "findm"} /\ folderQueue # <<>>
  \/ phase = "download" /\ NetworkEvent

\* process.on('SIGINT'): the report, without process.exit
Interrupt_NoExit ==
  /\ Waiting
  /\ ~proc.sigint
  /\ generateReport(errors)
  /\ proc' = [alive |-> TRUE, sigint |-> TRUE, fetches |-> Len(fetchLog),
               started |-> Cardinality({a \in Assets : task[a].st # "new"})]
  /\ UNCHANGED <<envVars, firstRun, crawlVars, dlVars>>

\* process.on('SIGINT'): generateReport(); process.exit(0)
Interrupt ==
  /\ Waiting
  /\ ~proc.sigint
  /\ generateReport(errors)
  /\ Exit(TRUE)
  /\ UNCHANGED <<envVars, firstRun, crawlVars, dlVars>>

\* ------------------------------------------------------------------
\* Specifications
\* ------------------------------------------------------------------
TreeInit ==
  /\ parent \in [Nodes -> 0..(MaxNodes - 1)]
  /\ kind \in [Nodes -> Kinds]
  /\ TreeOK

\* no download has begun
DlStart ==
  /\ expected = <<>>
  /\ existing = <<>>
  /\ file = <<>>
  /\ task = <<>>
  /\ net = <<>>
  /\ rend = <<>>
  /\ rq = NoCall
  /\ dpc = "idle"
  /\ dlQueue = <<>>
  /\ inProgress = <<>>
  /\ raceOn = {}
  /\ downloadedAssets = 0
  /\ skippedAssets = 0
  /\ failedAssets = 0
  /\ totalSize = 0
  /\ errors = <<>>

\* the process runs
ProcRunning == [alive |-> TRUE, sigint |-> FALSE, fetches |-> 0, started |-> 0]

\* no earlier run
NoRun == [runs |-> 0, log |-> <<>>, levels |-> <<>>, assets |-> <<>>, failed |-> {}]

\* "downloadRenditions: false" of config
RenditionsDefault == downloadRenditions = FALSE

\* the retry settings of config
RetryDefault ==
  /\ retryAttempts = RetryAttempts
  /\ retryDelay = RetryDelay

DlIdle ==
  /\ maxConcurrent = DefaultMaxConcurrent
  /\ RetryDefault
  /\ RenditionsDefault
  /\ downloadMetadata = TRUE
  /\ DlStart

\* no crawl has begun
CrawlStart ==
  /\ phase = "idle"
  /\ pattern = 0
  /\ patterns = <<>>
  /\ matchedPattern = <<>>
  /\ folderQueue = startFolder
  /\ processedPaths = {}
  /\ discoveredAssets = <<>>
  /\ totalAssets = 0
  /\ foldersScanned = 0
  /\ foundAssets = <<>>
  /\ fetchLog = <<>>
  /\ fetchFailed = {}
  /\ fetchLevel = <<>>
  /\ probes = <<>>
  /\ checks = <<>>
  /\ infos = <<>>
  /\ firstRun = NoRun
  /\ proc = ProcRunning
  /\ reports = <<>>

CrawlInit ==
  /\ DlIdle
  /\ CrawlStart

\* a full crawl (discovery or search) of any tree, any jcr:path
Init ==
  /\ TreeInit
  /\ jcr \in JcrChoices
  /\ quirk = NoQuirk
  /\ embed \in 1..MaxEmbed
  /\ maxDepth = DefaultMaxDepth
  /\ testMode = FALSE
  /\ testLimit = DefaultTestLimit
  /\ findDownload = FALSE
  /\ startFolder = <<>>
  /\ CrawlInit

Next ==
  \/ StartDiscovery
  \/ DiscoverSkip
  \/ DiscoverScan
  \/ DiscoverEnd
  \/ StartFind
  \/ FindSkip
  \/ FindScan
  \/ FindEnd

Spec == Init /\ [][Next]_vars

\* a crawl of any tree none of whose nodes carries a jcr:path
InitPlain ==
  /\ TreeInit
  /\ jcr = <<0, 0>>
  /\ quirk = NoQuirk
  /\ embed \in 1..MaxEmbed
  /\ maxDepth = DefaultMaxDepth
  /\ testMode = FALSE
  /\ testLimit = DefaultTestLimit
  /\ findDownload = FALSE
  /\ startFolder = <<>>
  /\ CrawlInit

\* a search with one pattern or with a list of patterns
NextSearch ==
  \/ StartFind
  \/ FindSkip
  \/ FindScan
  \/ FindEnd
  \/ StartFindMultiple
  \/ FindMultipleSkip
  \/ FindMultipleScan
  \/ FindMultipleEnd

SpecSearch == InitPlain /\ [][NextSearch]_vars

\* a crawl of a tree in which nodes that are neither asset nor folder have
\* children too, and one key may be a system key
InitSystem ==
  /\ parent \in [Nodes -> 0..(MaxNodes - 1)]
  /\ kind \in [Nodes -> Kinds]
  /\ \A n \in Nodes : parent[n] < n /\ KindOf(parent[n]) \in {"folder", "other"}
  /\ \A n \in Nodes : n + 1 \in Nodes => parent[n] <= parent[n + 1]
  /\ jcr = <<0, 0>>
  /\ quirk \in {NoQuirk} \cup {<<n, "system">> : n \in Nodes}
  /\ embed \in 1..MaxEmbed
  /\ maxDepth = DefaultMaxDepth
  /\ testMode = FALSE
  /\ testLimit = DefaultTestLimit
  /\ findDownload = FALSE
  /\ startFolder = <<>>
  /\ CrawlInit

SpecSystem == InitSystem /\ [][Next]_vars

\* a crawl of a tree one of whose assets is malformed
InitMalformed ==
  /\ TreeInit
  /\ jcr = <<0, 0>>
  /\ quirk \in {<<n, q>> \in Nodes \X {"noextract", "badtitle"} : isAsset(n)}
  /\ embed \in 1..MaxEmbed
  /\ maxDepth = DefaultMaxDepth
  /\ testMode = FALSE
  /\ testLimit = DefaultTestLimit
  /\ findDownload = FALSE
  /\ startFolder = <<>>
  /\ CrawlInit

SpecMalformed == InitMalformed /\ [][Next]_vars

\* discovery with a configured MAX_DEPTH
InitDepth ==
  /\ TreeInit
  /\ jcr \in JcrChoices
  /\ quirk = NoQuirk
  /\ embed \in 1..MaxEmbed
  /\ maxDepth \in 0..MaxCfgDepth
  /\ testMode = FALSE
  /\ testLimit = DefaultTestLimit
  /\ findDownload = FALSE
  /\ startFolder = <<>>
  /\ CrawlInit

NextDiscover ==
  \/ StartDiscovery
  \/ DiscoverSkip
  \/ DiscoverScan
  \/ DiscoverEnd

SpecDepth == InitDepth /\ [][NextDiscover]_vars

\* scanFolder called once on a folder of any tree, the folder possibly wide
InitSelect ==
  /\ TreeInit
  /\ jcr = <<0, 0>>
  /\ quirk \in {NoQuirk} \cup {<<n, "wide">> : n \in {0} \cup {m \in Nodes : isFolder(m)}}
  /\ embed \in 1..MaxEmbed
  /\ maxDepth = DefaultMaxDepth
  /\ testMode = FALSE
  /\ testLimit = DefaultTestLimit
  /\ findDownload = FALSE
  /\ startFolder = <<>>
  /\ CrawlInit

NextSelect == Probe

SpecSelect == InitSelect /\ [][NextSelect]_vars

\* --- one call of checkPatternMatch on an asset of /content/dam --------
InitMatch ==
  /\ parent = [n \in Nodes |-> 0]
  /\ kind = [n \in Nodes |-> "asset"]
  /\ jcr = <<0, 0>>
  /\ quirk = NoQuirk
  /\ embed = 1
  /\ maxDepth = DefaultMaxDepth
  /\ testMode = FALSE
  /\ testLimit = DefaultTestLimit
  /\ findDownload = FALSE
  /\ startFolder = <<>>
  /\ CrawlInit

NextMatch == CheckMatch

SpecMatch == InitMatch /\ [][NextMatch]_vars

\* --- the making of one asset record ---------------------------------
NextInfo == ExtractInfo \/ CreateInfo

SpecInfo == InitMatch /\ [][NextInfo]_vars

\* discovery against a backend that embeds up to MaxNest levels in a listing
InitNested ==
  /\ TreeInit
  /\ jcr = <<0, 0>>
  /\ quirk = NoQuirk
  /\ embed \in 1..MaxNest
  /\ maxDepth = DefaultMaxDepth
  /\ testMode = FALSE
  /\ testLimit = DefaultTestLimit
  /\ findDownload = FALSE
  /\ startFolder = <<>>
  /\ CrawlInit

SpecNested == InitNested /\ [][NextDiscover]_vars

\* discovery in test mode with a ceiling of 1..MaxNodes assets
InitCeiling ==
  /\ TreeInit
  /\ jcr \in JcrChoices
  /\ quirk = NoQuirk
  /\ embed \in 1..MaxEmbed
  /\ maxDepth = DefaultMaxDepth
  /\ testMode = TRUE
  /\ testLimit \in 1..MaxNodes
  /\ findDownload = FALSE
  /\ startFolder = <<>>
  /\ CrawlInit

SpecCeiling == InitCeiling /\ [][NextDiscover]_vars

\* discovery in either mode, every awaited request being answered: the
\* loop of discoverAllAssets goes on while it can
InitTermination ==
  /\ TreeInit
  /\ kind \in [Nodes -> {"folder", "asset"}]
  /\ jcr \in JcrChoices
  /\ quirk = NoQuirk
  /\ embed \in 1..MaxEmbed
  /\ maxDepth = DefaultMaxDepth
  /\ testMode \in BOOLEAN
  /\ testLimit = IF testMode THEN MaxNodes - 1 ELSE DefaultTestLimit
  /\ findDownload = FALSE
  /\ startFolder = <<>>
  /\ CrawlInit

SpecTermination == InitTermination /\ [][NextDiscover]_vars /\ WF_vars(NextDiscover)

\* discovery started with "--folder P", P the path of a folder of the tree
InitFolder ==
  /\ TreeInit
  /\ jcr = <<0, 0>>
  /\ quirk = NoQuirk
  /\ embed \in 1..MaxEmbed
  /\ maxDepth = DefaultMaxDepth
  /\ testMode = FALSE
  /\ testLimit = DefaultTestLimit
  /\ findDownload = FALSE
  /\ startFolder \in {<<PathOf(n)>> : n \in {m \in Nodes : isFolder(m)}}
  /\ CrawlInit

SpecFolder == InitFolder /\ [][NextDiscover]_vars

\* the program is started once more after a discovery that ended: a new
\* process with the initial config, the tree and the backend being the same
Restart_KeepsProcessed ==
  /\ phase = "discovered"
  /\ firstRun.runs = 0
  /\ firstRun' = [runs |-> 1, log |-> fetchLog, levels |-> fetchLevel,
                   assets |-> discoveredAssets, failed |-> {}]
  /\ phase' = "idle"
  /\ folderQueue' = startFolder
  /\ discoveredAssets' = <<>>
  /\ totalAssets' = 0
  /\ foldersScanned' = 0
  /\ fetchLog' = <<>>
  /\ fetchFailed' = {}
  /\ fetchLevel' = <<>>
  /\ UNCHANGED <<envVars, dlVars, searchVars, foundAssets, processedPaths, proc, reports, probes, checks, infos>>

Restart ==
  /\ phase = "discovered"
  /\ firstRun.runs = 0
  /\ firstRun' = [runs |-> 1, log |-> fetchLog, levels |-> fetchLevel,
                   assets |-> discoveredAssets, failed |-> {}]
  /\ phase' = "idle"
  /\ folderQueue' = startFolder
  /\ processedPaths' = {}
  /\ discoveredAssets' = <<>>
  /\ totalAssets' = 0
  /\ foldersScanned' = 0
  /\ fetchLog' = <<>>
  /\ fetchFailed' = {}
  /\ fetchLevel' = <<>>
  /\ UNCHANGED <<envVars, dlVars, searchVars, foundAssets, proc, reports, probes, checks, infos>>

\* two discovery runs against the same tree and backend
NextTwice ==
  \/ StartDiscovery
  \/ DiscoverSkip
  \/ DiscoverScan
  \/ DiscoverEnd
  \/ Restart

SpecTwice == InitPlain /\ [][NextTwice]_vars

\* a discovery run and then a search against the same tree and backend
NextBoth ==
  \/ StartDiscovery
  \/ DiscoverSkip
  \/ DiscoverScan
  \/ DiscoverEnd
  \/ Restart
  \/ firstRun.runs = 1 /\ StartFind
  \/ FindSkip
  \/ FindScan
  \/ FindEnd

SpecBoth == InitPlain /\ [][NextBoth]_vars

\* ------------------------------------------------------------------
\* Specifications of the download phase
\* ------------------------------------------------------------------
\* main() has a list of n assets and calls downloadAllAssets; sizes is the
\* set of <<assetInfo.size, size of the file at outputPath>> to draw from
DownloadInit(n, sizes) ==
  /\ parent = [i \in Nodes |-> 0]
  /\ kind = [i \in Nodes |-> "asset"]
  /\ jcr = <<0, 0>>
  /\ quirk = NoQuirk
  /\ embed = 1
  /\ maxDepth = DefaultMaxDepth
  /\ testMode = FALSE
  /\ testLimit = DefaultTestLimit
  /\ findDownload = FALSE
  /\ startFolder = <<>>
  /\ phase = "download"
  /\ pattern = 0
  /\ patterns = <<>>
  /\ matchedPattern = <<>>
  /\ folderQueue = <<>>
  /\ processedPaths = {}
  /\ discoveredAssets = <<>>
  /\ totalAssets = n
  /\ foldersScanned = 1
  /\ foundAssets = <<>>
  /\ fetchLog = <<Root>>
  /\ fetchFailed = {}
  /\ fetchLevel = <<1>>
  /\ probes = <<>>
  /\ checks = <<>>
  /\ infos = <<>>
  /\ firstRun = NoRun
  /\ proc = ProcRunning
  /\ reports = <<>>
  /\ downloadMetadata \in BOOLEAN
  /\ \E pre \in [1..n -> sizes] :
       /\ expected = [a \in 1..n |-> pre[a][1]]
       /\ existing = [a \in 1..n |-> pre[a][2]]
       /\ file = [a \in 1..n |-> IF pre[a][2] < 0 THEN Absent
                                  ELSE [size |-> pre[a][2], by |-> "old"]]
  /\ task = [a \in 1..n |-> [st |-> "new", url |-> 1, lastError |-> "none"]]
  /\ net = [a \in 1..n |-> <<>>]
  /\ rend = [a \in 1..n |-> NoRenditions]
  /\ rq = NoCall
  /\ dpc = "idle"
  /\ dlQueue = <<>>
  /\ inProgress = <<>>
  /\ raceOn = {}
  /\ downloadedAssets = 0
  /\ skippedAssets = 0
  /\ failedAssets = 0
  /\ totalSize = 0
  /\ errors = <<>>

\* one asset, every relation of expected and existing size, one step per
\* candidate URL
AssetSizes ==
  {0, Tolerance + MinExisting - 1, Tolerance + MinExisting}
    \X {0 - 1, MinExisting, MinExisting + 1, 2 * Tolerance + MinExisting}

InitAsset ==
  /\ maxConcurrent = 1
  /\ RetryDefault
  /\ RenditionsDefault
  /\ DownloadInit(1, AssetSizes)

NextAsset ==
  \/ StartDownload
  \/ Launch
  \/ AwaitRace
  \/ \E a \in Assets : ThenCallback(a)
  \/ AfterRace
  \/ \E a \in Assets : TryUrl(a)

SpecAsset == InitAsset /\ [][NextAsset]_vars

\* one asset without output file, one step per request
InitRetry ==
  /\ maxConcurrent = 1
  /\ RetryDefault
  /\ RenditionsDefault
  /\ DownloadInit(1, {<<0, 0 - 1>>})

NextRetry ==
  \/ StartDownload
  \/ Launch
  \/ AwaitRace
  \/ \E a \in Assets : ThenCallback(a)
  \/ AfterRace
  \/ \E a \in Assets : Request(a)

SpecRetry == InitRetry /\ [][NextRetry]_vars

\* one asset downloaded without metadata, one step per request, under any
\* retry settings up to MaxAttempts attempts and MaxDelay ms
InitBackoff ==
  /\ maxConcurrent = 1
  /\ retryAttempts \in 1..MaxAttempts
  /\ retryDelay \in 0..MaxDelay
  /\ RenditionsDefault
  /\ DownloadInit(1, {<<0, 0 - 1>>})
  /\ downloadMetadata = FALSE

SpecBackoff == InitBackoff /\ [][NextRetry]_vars

\* a whole run after the connection test: discovery or search of a tree of
\* folders and assets, one asset possibly with a title that is not a string,
\* then the downloads and the report; SIGINT may arrive while the process
\* waits
InitMain ==
  /\ TreeInit
  /\ kind \in [Nodes -> {"folder", "asset"}]
  /\ jcr = <<0, 0>>
  /\ quirk \in {NoQuirk} \cup {<<n, "badtitle">> : n \in {m \in Nodes : isAsset(m)}}
  /\ embed = 1
  /\ maxDepth = DefaultMaxDepth
  /\ testMode = FALSE
  /\ testLimit = DefaultTestLimit
  /\ findDownload \in BOOLEAN
  /\ startFolder = <<>>
  /\ maxConcurrent = MaxConc
  /\ downloadMetadata = TRUE
  /\ RetryDefault
  /\ RenditionsDefault
  /\ DlStart
  /\ CrawlStart

NextMain ==
  \/ Alive /\ StartDiscovery
  \/ Alive /\ DiscoverScan
  \/ Alive /\ DiscoverEnd
  \/ Alive /\ StartFind
  \/ Alive /\ FindScan
  \/ Alive /\ FindEnd
  \/ Alive /\ MainCrawlDone
  \/ Alive /\ StartDownload
  \/ Alive /\ Launch
  \/ Alive /\ AwaitRace
  \/ Alive /\ \E a \in Assets : ThenCallback(a)
  \/ Alive /\ AfterRace
  \/ Alive /\ \E a \in Assets : Transfer(a)
  \/ Alive /\ MainCatch
  \/ Alive /\ MainReport
  \/ Alive /\ Interrupt

SpecMain == InitMain /\ [][NextMain]_vars

\* a run with --find-download or in discovery mode, up to the call of
\* downloadAllAssets, on a tree that may hold assets isValidAsset rejects
InitHandover ==
  /\ TreeInit
  /\ jcr = <<0, 0>>
  /\ quirk = NoQuirk
  /\ embed \in 1..MaxEmbed
  /\ maxDepth = DefaultMaxDepth
  /\ testMode = FALSE
  /\ testLimit = DefaultTestLimit
  /\ findDownload = TRUE
  /\ startFolder = <<>>
  /\ CrawlInit

NextHandover ==
  \/ StartDiscovery
  \/ DiscoverSkip
  \/ DiscoverScan
  \/ DiscoverEnd
  \/ StartFind
  \/ FindSkip
  \/ FindScan
  \/ FindEnd
  \/ MainCrawlDone

SpecHandover == InitHandover /\ [][NextHandover]_vars

\* a pool one asset shorter than needed to occupy the widest pool twice
NumAssets == MaxConc + 1
PoolSizes == {<<0, 0 - 1>>, <<Tolerance + MinExisting - 1, MinExisting>>}

InitPool ==
  /\ maxConcurrent \in 1..MaxConc
  /\ RetryDefault
  /\ RenditionsDefault
  /\ DownloadInit(NumAssets, PoolSizes)

NextPool ==
  \/ StartDownload
  \/ Launch
  \/ AwaitRace
  \/ \E a \in Assets : ThenCallback(a)
  \/ AfterRace
  \/ \E a \in Assets : Transfer(a)

SpecPool == InitPool /\ [][NextPool]_vars

\* one asset with config.downloadRenditions set
InitRendition ==
  /\ maxConcurrent \in 1..MaxConc
  /\ RetryDefault
  /\ downloadRenditions = TRUE
  /\ DownloadInit(1, {<<0, 0 - 1>>})

NextRendition ==
  \/ StartDownload
  \/ Launch
  \/ AwaitRace
  \/ \E a \in Assets : ThenCallback(a)
  \/ AfterRace
  \/ \E a \in Assets : TransferRenditions(a)

SpecRendition == InitRendition /\ [][NextRendition]_vars

\* the same pool with fewer cases, where every awaited request, transfer
\* and callback that can go on does
NextRenditionLive ==
  \/ StartDownload
  \/ Launch
  \/ AwaitRace
  \/ \E a \in Assets : ThenCallback(a)
  \/ AfterRace
  \/ \E a \in Assets : TransferFew(a)

InitRenditionLive ==
  /\ maxConcurrent \in 1..MaxConc
  /\ RetryDefault
  /\ downloadRenditions = TRUE
  /\ DownloadInit(2, {<<0, 0 - 1>>})

SpecRenditionLive == InitRenditionLive /\ [][NextRenditionLive]_vars /\ WF_vars(NextRenditionLive)

\* "await sleep(config.sleepTime)" of downloadAllAssets is never reached: after
\* Promise.race a promise has left inProgress, so Wake is not a step of
\* SpecAsset or SpecPool
DriverNeverSleeps == dpc # "sleep"

\* ------------------------------------------------------------------
\* Properties
\* ------------------------------------------------------------------
NoDuplicates(s) == \A i, j \in 1..Len(s) : i # j => s[i] # s[j]

\* C1: within one crawl (discovery or search) scanFolder / searchInFolder is
\* invoked at most once for every path, however often the path was enqueued.
C1_AtMostOnceVisit == NoDuplicates(fetchLog)

\* a path that was fetched is waiting in the queue once more
C1_Witness ==
  /\ phase \in {"discover", "find"}
  /\ \E i \in 1..Len(fetchLog) : fetchLog[i] \in Range(folderQueue)

Started(a) == task[a].st # "new"
Returned(a) == task[a].st \in {"settled", "removed"}
Last(q) == q[Len(q)]

\* C2: the downloadAsset calls that were started and have not completed are
\* never more than maxConcurrent.
C2_BoundedConcurrency == Cardinality(Running) <= maxConcurrent

\* the pool is full while assets wait in the queue
C2_Witness == Cardinality(Running) = maxConcurrent /\ dlQueue # <<>>

\* the file at outputPath is within the tolerance of the known expected size
WithinTolerance(a) ==
  /\ existing[a] >= 0
  /\ expected[a] > 0
  /\ Abs(existing[a] - expected[a]) < Tolerance

\* C3: an asset whose output file is within the tolerance of its known
\* expected size is counted as skipped, no URL is requested for it, and the
\* file and the other counters stay as they were.
C3_ResumeSkip ==
  \A a \in Assets :
    (Started(a) /\ WithinTolerance(a)) =>
       /\ skippedAssets = 1
       /\ net[a] = <<>>
       /\ Returned(a)
       /\ file[a] = [size |-> existing[a], by |-> "old"]
       /\ downloadedAssets = 0 /\ failedAssets = 0 /\ totalSize = 0

\* such an asset was started, its file being too small to be skipped for its
\* size alone
C3_Witness ==
  \E a \in Assets : Started(a) /\ WithinTolerance(a) /\ existing[a] <= MinExisting

\* C4: an asset is skipped if and only if its file exists and either the
\* expected size is known and the file is within the tolerance of it, or the
\* expected size is unknown and the file is larger than the minimal size.
C4_SkipIff ==
  \A a \in Assets :
    Started(a) =>
      (skippedAssets = 1 <=>
         /\ existing[a] >= 0
         /\ \/ WithinTolerance(a)
            \/ expected[a] = 0 /\ existing[a] > MinExisting)

\* the assets one of whose candidate URLs gave a payload
Won == {a \in Assets : "full" \in Range(net[a])}

\* C5: when the candidates before candidate k fail and candidate k gives a
\* payload, the asset is counted as downloaded with the size of the payload,
\* the file holds the payload and no later candidate is requested.
C5_CandidateFallback ==
  /\ \A a \in Assets : \A k \in 1..Len(net[a]) :
       (net[a][k] = "full" /\ \A j \in 1..(k - 1) : net[a][j] # "full") =>
          /\ Len(net[a]) = k
          /\ file[a] = [size |-> PayloadBytes, by |-> "done"]
          /\ task[a].st # "running"
  /\ downloadedAssets = Cardinality(Won)
  /\ totalSize = PayloadBytes * Cardinality(Won)

\* the third or a later candidate gave the payload after a broken transfer
C5_Witness ==
  \E a \in Assets :
    /\ Len(net[a]) >= 3
    /\ Last(net[a]) = "full"
    /\ "cut" \in Range(net[a])
    /\ "refused" \in Range(net[a])

\* C6: after a candidate attempt that failed, outputPath holds no data of that
\* attempt when the next candidate is tried or the asset is recorded as failed.
C6_FailedOutputDiscarded ==
  \A a \in Assets : ~(file[a].by = "cut" /\ file[a].size > 0)

\* C7: when downloadAllAssets returns, every asset was counted once, as
\* downloaded, skipped or failed.
C7_OneOutcomePerAsset ==
  dpc = "done" => downloadedAssets + skippedAssets + failedAssets = Len(expected)

\* every candidate URL of the asset was requested and none gave a payload
Exhausted(a) == task[a].st # "running" /\ Len(net[a]) = NumUrls /\ a \notin Won

\* the message of the last error among the candidates
RECURSIVE LastErrorOf(_)
LastErrorOf(outs) ==
  IF outs = <<>> THEN "generic"
  ELSE IF Last(outs) = "refused" THEN "http"
  ELSE IF Breaks(Last(outs)) THEN "stream"
  ELSE LastErrorOf(SubSeq(outs, 1, Len(outs) - 1))

ErrorsOf(a) == SelectSeq(errors, LAMBDA e : e.asset = a)

\* C8: when every candidate URL of an asset fails, downloadAsset does not
\* throw, the asset is counted as failed once with one error entry of its path
\* and the last error, and the other assets are started and finish.
C8_FailureIsolation ==
  /\ dpc # "threw"
  /\ \A a \in Assets : task[a].st # "rejected"
  /\ failedAssets = Len(errors)
  /\ \A a \in Assets :
       Exhausted(a) => ErrorsOf(a) = <<[asset |-> a, error |-> LastErrorOf(net[a])]>>
  /\ dpc = "done" => \A a \in Assets : task[a].st = "removed"

\* downloadAllAssets returned after an asset that is not the last one failed
\* on a broken transfer
C8_Witness ==
  /\ dpc = "done"
  /\ \E a \in Assets :
       /\ Exhausted(a)
       /\ a < Len(expected)
       /\ LastErrorOf(net[a]) = "stream"
       /\ \E b \in Assets : b > a /\ b \in Won

\* the valid assets and the folders of the tree
ValidAssetPaths == {PathOf(n) : n \in {m \in Nodes : isAsset(m) /\ isValidAsset(m)}}
FolderPaths == {Root} \cup {PathOf(n) : n \in {m \in Nodes : isFolder(m)}}

\* C9: after a full discovery of a tree whose folders are all fetchable,
\* totalAssets is the number of distinct valid asset paths (the size of
\* discoveredAssets) and foldersScanned the number of folders.
C9_DiscoveryCounts ==
  (phase = "discovered" /\ jcr = <<0, 0>> /\ fetchFailed = {}) =>
     /\ totalAssets = Cardinality(ValidAssetPaths)
     /\ totalAssets = Len(discoveredAssets)
     /\ foldersScanned = Cardinality(FolderPaths)

\* C10: no folder more than maxDepth levels below the root is fetched.
C10_DepthBound == \A i \in 1..Len(fetchLog) : Len(fetchLog[i]) <= maxDepth

\* p is P or lies below P
Under(p, P) == Len(p) >= Len(P) /\ SubSeq(p, 1, Len(P)) = P

\* C11: in a discovery started from folder P every path fetched and every
\* asset discovered lies under P.
C11_StartFolderScoping ==
  startFolder # <<>> =>
    /\ \A i \in 1..Len(fetchLog) : Under(fetchLog[i], startFolder[1])
    /\ \A i \in 1..Len(discoveredAssets) : Under(discoveredAssets[i], startFolder[1])

C13_FirstPatternWins ==
  \A i \in 1..Len(matchedPattern) :
    \E j \in 1..Len(patterns) :
      /\ patterns[j] = matchedPattern[i]
      /\ checkPatternMatch(foundAssets[i], patterns[j])
      /\ \A h \in 1..(j - 1) : ~checkPatternMatch(foundAssets[i], patterns[h])

\* an asset that both patterns of the list match was found, the pattern that
\* matches fewer paths being the first of the list
C13_Witness ==
  /\ phase = "foundm"
  /\ Len(patterns) = 2
  /\ patterns[2] = 0
  /\ \E i \in 1..Len(foundAssets) : matchedPattern[i] = patterns[1]
  /\ \E i \in 1..Len(foundAssets) : matchedPattern[i] = patterns[2]

\* C14: the list of found assets holds every path at most once.
C14_FoundOnce == NoDuplicates(foundAssets)

\* a found asset was listed twice, nested in the listing of the folder above
\* its folder and in the listing of its own folder, and two patterns match it
C14_Witness ==
  /\ phase = "findm"
  /\ Len(patterns) = 2
  /\ \E i, j \in 1..Len(fetchLog) :
       /\ i < j
       /\ fetchLevel[i] >= 2
       /\ fetchLevel[j] >= 1
       /\ Len(fetchLog[j]) = Len(fetchLog[i]) + 1
       /\ Under(fetchLog[j], fetchLog[i])
       /\ \E a \in 1..Len(foundAssets) :
            /\ Len(foundAssets[a]) = Len(fetchLog[j]) + 1
            /\ Under(foundAssets[a], fetchLog[j])
            /\ \A h \in 1..2 : checkPatternMatch(foundAssets[a], patterns[h])

\* the nodes the crawl has to ignore: those without asset signal and folder
\* type, those under a system key, and everything below them
RECURSIVE Ignored(_)
Ignored(n) ==
  IF n = 0 THEN FALSE
  ELSE KindOf(n) = "other" \/ quirk = <<n, "system">> \/ Ignored(parent[n])

\* the paths the crawl has touched
Touched ==
  Range(discoveredAssets) \cup Range(foundAssets) \cup Range(folderQueue)
    \cup processedPaths \cup Range(fetchLog)

\* C15: a node that is neither asset nor folder, and a node under a system
\* key whatever its shape, raises no exception, is not recorded, not enqueued
\* and its nested data is not explored.
C15_ClassifierTotal ==
  /\ phase # "threw"
  /\ \A n \in Nodes : Ignored(n) => PathOf(n) \notin Touched

\* a crawl ended that used a nested listing of a tree in which an asset lies
\* below a node that is neither asset nor folder, and an asset or a folder is
\* under a system key
C15_Witness ==
  /\ phase \in {"discovered", "found"}
  /\ \E i \in 1..Len(fetchLevel) : fetchLevel[i] >= 2
  /\ \E n \in Nodes : KindOf(n) = "other" /\ \E c \in Nodes : parent[c] = n /\ isAsset(c)
  /\ \E n \in Nodes : quirk = <<n, "system">> /\ (isAsset(n) \/ isFolder(n))

\* C16: a node whose extraction or matching raises an exception is skipped
\* and the crawl goes on: no exception leaves the traversal, in discovery and
\* in search.
C16_MalformedNodeSkipped ==
  /\ phase # "threw"
  /\ \A n \in Nodes : ~extractAssetInfo(n) =>
       PathOf(n) \notin Range(discoveredAssets) \cup Range(foundAssets)

\* C19: for one URL makeRequestWithRetry sends at most retryAttempts requests,
\* none after a successful one, and throws the error of the last request when
\* all of them failed; no request goes to a candidate URL once a later
\* candidate was requested.
C19_RetryCeiling ==
  /\ \A u \in 1..NumUrls : rq.count[u] <= RetryAttempts
  /\ Len(rq.cur) <= RetryAttempts
  /\ \A i \in 1..(Len(rq.cur) - 1) : rq.cur[i] # "ok"
  /\ rq.state = "returned" => Last(rq.cur) = "ok"
  /\ rq.state = "threw" =>
       /\ Len(rq.cur) = RetryAttempts
       /\ \A i \in 1..Len(rq.cur) : rq.cur[i] # "ok"
       /\ rq.error = Last(rq.cur)
  /\ \A u \in 1..NumUrls : u > rq.url => rq.count[u] = 0
  /\ \A a \in Assets : rq.url <= task[a].url

\* the call for the third candidate threw after retryAttempts different
\* failures, the second candidate having answered at its second request
C19_Witness ==
  /\ rq.url = 3
  /\ rq.state = "threw"
  /\ rq.cur[1] # rq.cur[RetryAttempts]
  /\ rq.count[2] = 2
  /\ rq.count[1] = RetryAttempts

\* C20: a request that fails with HTTP 404 is not retried: within one call no
\* request follows it.
C20_NotFoundNotRetried ==
  \A i \in 1..(Len(rq.cur) - 1) : rq.cur[i] # "http404"

\* C17: a run that got past the connection test does not end without a
\* report: when the process has exited, generateReport has run.
C17_AlwaysReports == ~proc.alive => Len(reports) >= 1

\* the statistics of the run were reported as they are
ReportedAsIs == reports # <<>> /\ Last(reports) = Summary(errors)

\* C18: once the SIGINT handler has run, no tree fetch and no download is
\* begun, and the report carries the statistics as they were at the signal.
C18_Cancellation ==
  proc.sigint =>
    /\ ReportedAsIs
    /\ Len(reports) = 1
    /\ proc.fetches = Len(fetchLog)
    /\ proc.started = Cardinality({a \in Assets : task[a].st # "new"})

\* SIGINT arrived after the crawl, while the pool of downloads was full and
\* an asset was waiting in the queue
C18_Witness ==
  /\ proc.sigint
  /\ foldersScanned >= 1
  /\ Cardinality(Running) = maxConcurrent
  /\ \E a \in Assets : task[a].st = "new"


\* the list main hands to downloadAllAssets: foundAssets after a search
\* (which main leaves when it is empty), the discovered assets otherwise
Handed == IF foundAssets # <<>> THEN foundAssets ELSE allAssets

\* C21: every asset handed to downloadAllAssets, in discovery and in
\* find-download, satisfies isValidAsset.
C21_ValidityFilter ==
  phase = "download" =>
    \A i \in 1..Len(Handed) : isValidAsset(NodeAt(Handed[i]))


\* C22: in test mode with ceiling N, a discovery all of whose folders were
\* listed returns min(N, number of valid assets of the tree) records, all
\* distinct.
C22_AssetCeiling ==
  (phase = "discovered" /\ testMode /\ fetchFailed = {}) =>
    /\ Len(allAssets) = Min(testLimit, Cardinality(ValidAssetPaths))
    /\ NoDuplicates(allAssets)


Delivering == Settled # {} \/ \E a \in raceOn : task[a].st \in {"removed", "rejected"}

\* C24: the driver never sleeps; it waits for the backend with assets in the
\* queue only while maxConcurrent downloads run; in its loop with a free slot
\* and a non-empty queue its next step launches a download; and when one of
\* the raced downloads has completed its next step takes it back to the loop,
\* the other downloads still running.
C24_NoIdling ==
  /\ [](dpc # "sleep")
  /\ []((dpc = "race" /\ dlQueue # <<>> /\ ~Delivering)
          => Cardinality(Running) = maxConcurrent)
  /\ [][(dpc = "launch" /\ dlQueue # <<>> /\ Len(inProgress) < maxConcurrent)
          => (dpc' = "launch" /\ dlQueue' = Tail(dlQueue)
              /\ inProgress' = Append(inProgress, Head(dlQueue)))]_vars
  /\ [][(dpc = "race" /\ dlQueue # <<>> /\ Settled = {}
           /\ \E a \in raceOn : task[a].st = "removed")
          => dpc' = "launch"]_vars

\* in the widest pool the driver went on after the first completion: the
\* asset that had waited runs beside one launched in the first round
C24_Witness ==
  /\ maxConcurrent = MaxConc
  /\ task[NumAssets].st = "running"
  /\ \E b \in 1..MaxConc : task[b].st = "running"
  /\ \E a \in 1..MaxConc : task[a].st = "removed"


\* the counts and the choice the claim describes, for one followed scanFolder
\* call e: the responses to the hints requested, their item counts, and the
\* earliest response with the highest count
Counted(e, i) ==
  LET r == Responses(JsonDepths, e.failed)[i]
  IN IF r = Fail THEN Fail ELSE ItemCount(NodeAt(e.path), r)

Richest(e) ==
  LET top == CHOOSE c \in {Counted(e, i) : i \in 1..e.asked} :
               \A j \in 1..e.asked : Counted(e, j) <= c
      first == CHOOSE i \in 1..e.asked :
                 Counted(e, i) = top /\ \A j \in 1..(i - 1) : Counted(e, j) < top
  IN IF top <= 0 THEN Fail ELSE Responses(JsonDepths, e.failed)[first]

\* C25: scanFolder keeps the response with the most item keys among the hints
\* it requested, the earliest one on ties (none when no response has an
\* item); it requests every hint unless a response has more than LargeItems
\* items, and then that response is the last one requested.
C25_RichestResponse ==
  \A x \in 1..Len(probes) :
    LET e == probes[x]
        large == {i \in 1..Len(JsonDepths) : Counted(e, i) > LargeItems}
    IN /\ e.asked >= 1
       /\ e.best = Richest(e)
       /\ e.asked = IF large = {} THEN Len(JsonDepths)
                    ELSE CHOOSE i \in large : \A j \in large : i <= j

\* the call for a wide folder with children: the first hint failed, the
\* second answered without items, the third answered with more than
\* LargeItems items and was the last one requested
C25_Witness ==
  /\ probes # <<>>
  /\ quirk = <<NodeAt(probes[1].path), "wide">>
  /\ Children(NodeAt(probes[1].path)) # <<>>
  /\ probes[1].failed = 1
  /\ probes[1].best >= 1
  /\ probes[1].asked = 3


\* C26: a search whose pattern is found in every path, run after a discovery
\* of the same tree against the same backend, fetches the folder paths the
\* discovery fetched and returns the asset paths the discovery returned.
C26_SearchLikeDiscovery ==
  (firstRun.runs = 1 /\ phase = "found" /\ pattern = 0) =>
    /\ Range(fetchLog) = Range(firstRun.log)
    /\ Range(foundAssets) = Range(firstRun.assets)


\* C27: during discovery the depths of the fetched folders never decrease,
\* and no folder waits in the queue that is less deep than a fetched one.
C27_BreadthFirst ==
  phase \in {"discover", "discovered"} =>
    /\ \A i, j \in 1..Len(fetchLog) : i < j => Len(fetchLog[i]) <= Len(fetchLog[j])
    /\ \A i \in 1..Len(fetchLog), q \in Range(folderQueue) \ processedPaths :
         Len(fetchLog[i]) <= Len(q)


\* the nodes at most d levels below /content/dam
Within(d) == {n \in Nodes : Len(PathOf(n)) <= d}

\* the first scanFolder call is over: /content/dam was fetched
FirstScanDone == phase \in {"discover", "discovered"} /\ Len(fetchLog) = 1

ContainsIgnoringCase(field, pat) ==
  field # Undefined /\ includes(toLowerCase(field), toLowerCase(pat))

\* the fields of a followed call, in the order of the statement
FieldsOf(c) ==
  LET fname == basename(c.path)
      segments == split(c.path)
  IN <<[text |-> c.path, reason |-> "Full path match"],
       [text |-> fname, reason |-> "Filename match"],
       [text |-> basenameWithout(fname, extname(fname)),
        reason |-> "Filename without extension match"],
       [text |-> IF Truthy(c.node.title) THEN c.node.title ELSE fname,
        reason |-> "Title match"],
       [text |-> c.node.description, reason |-> "Description match"],
       [text |-> IF c.node.subject = Undefined THEN Undefined ELSE join(c.node.subject),
        reason |-> "Keywords match"]>>
     \o [x \in 1..Len(segments) |-> [text |-> segments[x], reason |-> "Path segment match"]]

FirstField(c) ==
  LET fs == FieldsOf(c)
      hit == {i \in 1..Len(fs) : ContainsIgnoringCase(fs[i].text, c.pattern)}
  IN IF hit = {} THEN NoReason
     ELSE fs[CHOOSE i \in hit : \A j \in hit : i <= j].reason

RECURSIVE TransferredBytes(_)
TransferredBytes(S) ==
  IF S = {} THEN 0
  ELSE LET a == CHOOSE x \in S : TRUE
       IN file[a].size + TransferredBytes(S \ {a})

C30_NoLostUpdates ==
  dpc = "done" =>
    /\ downloadedAssets = Cardinality(Won)
    /\ totalSize = TransferredBytes(Won)

\* the widest pool has returned, two transfers succeeded, and a download
\* launched later finished before one launched earlier
C30_Witness ==
  /\ dpc = "done"
  /\ maxConcurrent = MaxConc
  /\ Cardinality(Won) >= 2
  /\ totalSize >= 2 * PayloadBytes
  /\ \E i, j \in 1..Len(errors) : i < j /\ errors[i].asset > errors[j].asset

\* ---------------------------------------------------------------------
\* C31  Rendition failures are silent: with rendition download enabled, a
\* rendition whose every URL fails leaves the parent asset downloaded, adds
\* nothing to failedAssets or stats.errors, and the remaining renditions of
\* the asset are still attempted.
Wanted(names) == SelectSeq(names, LAMBDA r : ~SkipRendition(r))

\* the rendition got no payload from any of its URLs
RenditionFailed(t) == "full" \notin Range(t.asked)

C31_SilentRenditionFailure ==
  \A a \in Assets :
    (\E i \in 1..Len(rend[a].tried) : RenditionFailed(rend[a].tried[i])) =>
       /\ a \in Won
       /\ ErrorsOf(a) = <<>>
       /\ failedAssets = Len(errors)
       /\ [i \in 1..Len(rend[a].tried) |-> rend[a].tried[i].name] = Wanted(rend[a].names)

\* ---------------------------------------------------------------------
\* C32  Record update by the download engine: after a successful download
\* of an asset record whose size was unknown (0), the size field of the
\* record equals the number of bytes transferred.
C32_SizeRecorded ==
  [][\A a \in Assets :
       (expected[a] = 0 /\ a \notin Won /\ (a \in Won)') =>
          expected'[a] = file'[a].size]_vars

\* ---------------------------------------------------------------------
\* C33  Non-negative size: every asset record made by extractAssetInfo or
\* createAssetInfoFromPath has size >= 0, whatever the server supplies in
\* its size fields.
C33_NonNegativeSize == \A i \in 1..Len(infos) : infos[i].size >= 0

\* ---------------------------------------------------------------------
\* C34  Discovery terminates: on every finite tree, also when a jcr:path
\* makes a folder of a listing point back at an ancestor or at another
\* folder, discoverAllAssets eventually returns, with an empty queue or
\* with the ceiling of test mode reached.
C34_DiscoveryTerminates ==
  /\ <>(phase = "discovered")
  /\ [](phase = "discovered" => (folderQueue = <<>> \/ TestLimitReached(totalAssets)))

\* discovery returned on a tree one of whose folders reports the path of
\* its parent, after the queue held a path that was processed before
C34_Witness ==
  /\ phase = "discovered"
  /\ jcr[1] # 0
  /\ isFolder(jcr[1])
  /\ jcr[2] = parent[jcr[1]]
  /\ folderQueue = <<>>
  /\ Len(fetchLog) >= 2

\* ---------------------------------------------------------------------
\* C35  Download phase terminates: for every maxConcurrent >= 1 and every
\* finite asset list, every request being answered, downloadAllAssets
\* eventually returns, and then the queue and inProgress are empty and
\* every asset has reached an outcome.
C35_DownloadTerminates ==
  /\ <>(dpc = "done")
  /\ [](dpc = "done" =>
          /\ dlQueue = <<>>
          /\ inProgress = <<>>
          /\ \A a \in Assets : task[a].st = "removed"
          /\ downloadedAssets + skippedAssets + failedAssets >= Len(expected))

\* ---------------------------------------------------------------------
\* Two runs of the download phase over one output directory
\* ---------------------------------------------------------------------
\* the assets the run counted as failed: the catch of downloadAsset pushes
\* one entry of config.stats.errors for each
FailedAssets == {a \in Assets : ErrorsOf(a) # <<>>}

\* the process has ended and the program is started again with the same
\* arguments: config.stats and the queue are new, the asset list is
\* discovered again from the same repository, and the output directory
\* holds what the first process left in it
Rerun ==
  /\ dpc = "done"
  /\ firstRun.runs = 0
  /\ firstRun' = [firstRun EXCEPT !.runs = 1, !.failed = FailedAssets]
  /\ existing' = [a \in Assets |-> file[a].size]
  /\ file' = [a \in Assets |-> IF Exists(file[a])
                                THEN [size |-> file[a].size, by |-> "old"]
                                ELSE Absent]
  /\ task' = [a \in Assets |-> [st |-> "new", url |-> 1, lastError |-> "none"]]
  /\ net' = [a \in Assets |-> <<>>]
  /\ rend' = [a \in Assets |-> NoRenditions]
  /\ dpc' = "idle"
  /\ dlQueue' = <<>>
  /\ inProgress' = <<>>
  /\ raceOn' = {}
  /\ downloadedAssets' = 0
  /\ skippedAssets' = 0
  /\ failedAssets' = 0
  /\ totalSize' = 0
  /\ errors' = <<>>
  /\ UNCHANGED <<envVars, crawlVars, proc, reports, maxConcurrent, downloadMetadata,
                 expected, rq>>

\* the asset records of the listing: dam:size absent, or the size of the
\* payload; no file in the output directory before the first run
RerunSizes == {<<0, 0 - 1>>, <<PayloadBytes, 0 - 1>>}

InitRerun ==
  /\ maxConcurrent \in 1..MaxConc
  /\ RetryDefault
  /\ RenditionsDefault
  /\ DownloadInit(2, RerunSizes)

NextRerun ==
  \/ StartDownload
  \/ Launch
  \/ AwaitRace
  \/ \E a \in Assets : ThenCallback(a)
  \/ AfterRace
  \/ \E a \in Assets : Transfer(a)
  \/ Rerun

SpecRerun == InitRerun /\ [][NextRerun]_vars

\* ---------------------------------------------------------------------
\* C36  No false resume after failure: an asset counted as failed in the
\* first run is not skipped as existing in the second run; when its
\* downloadAsset call of the second run has returned, a candidate URL was
\* requested for it.
C36_NoFalseResume ==
  \A a \in Assets :
    (firstRun.runs = 1 /\ a \in firstRun.failed /\ Returned(a)) => net[a] # <<>>

\* ---------------------------------------------------------------------
\* C37  No fetch after the ceiling: in test mode config.stats.totalAssets
\* goes up by one per recorded asset, so no asset is recorded after it
\* reached testLimit exactly when it never exceeds testLimit; and from a
\* state in which it has reached testLimit no step fetches a listing,
\* enqueues a folder or records an asset.
C37_NothingAfterCeiling ==
  /\ [](testMode => totalAssets <= testLimit)
  /\ [][TestLimitReached(totalAssets) =>
          /\ fetchLog' = fetchLog
          /\ Range(folderQueue') \subseteq Range(folderQueue)
          /\ discoveredAssets' = discoveredAssets
          /\ totalAssets' = totalAssets]_vars

\* ---------------------------------------------------------------------
\* The output file of an asset path
\* ---------------------------------------------------------------------
\* a path is a text whose characters are "/" and the letter runs "content",
\* "dam" and "a" (the one letter of a file name)
PathRoot == <<"/", "content", "/">>            \* '/content/'
DamPrefix == <<"/", "content", "/", "dam">>    \* '/content/dam'
OutputDir == <<"outputDir">>                   \* config.outputDir
RestChars == {"/", "dam", "a"}

\* String.prototype.startsWith
startsWith(s, p) == Len(s) >= Len(p) /\ SubSeq(s, 1, Len(p)) = p

\* String.prototype.replace(p, r) with a string pattern: the first
\* occurrence of p, wherever it is
replace(s, p, r) ==
  IF ~includes(s, p) THEN s
  ELSE LET i == CHOOSE k \in 0..(Len(s) - Len(p)) :
                   /\ SubSeq(s, k + 1, k + Len(p)) = p
                   /\ \A j \in 0..(k - 1) : SubSeq(s, j + 1, j + Len(p)) # p
       IN SubSeq(s, 1, i) \o r \o SubSeq(s, i + Len(p) + 1, Len(s))

\* String.prototype.replace(/^\//, ''): one leading slash is removed
stripLeadingSlash(s) == IF s # <<>> /\ s[1] = "/" THEN Tail(s) ELSE s

\* path.normalize of a text without "." and ".." segments: a run of
\* slashes becomes one slash
RECURSIVE normalize(_)
normalize(s) ==
  IF Len(s) < 2 THEN s
  ELSE IF s[1] = "/" /\ s[2] = "/" THEN normalize(Tail(s))
  ELSE <<s[1]>> \o normalize(Tail(s))

\* path.join(a, b): empty arguments are left out
pathJoin(a, b) == IF b = <<>> THEN normalize(a) ELSE normalize(a \o <<"/">> \o b)

\* lines 1230-1235 of downloadAsset: outputPath of assetInfo.path
outputPathOf(assetPath) ==
  LET relativePath == stripLeadingSlash(replace(assetPath, DamPrefix, <<>>))
  IN pathJoin(OutputDir, relativePath)

\* the map of loadQueryFile for a line without blanks, '?', '#' and
\* '.coreimg.': a line that does not start with '/content/' is put under
\* baseDAMPath, '/content/dam' unless the file names another
cleanPath(line) ==
  IF startsWith(line, PathRoot) THEN line
  ELSE IF startsWith(line, <<"/">>) THEN DamPrefix \o line
  ELSE DamPrefix \o <<"/">> \o line

\* filter((path, index, array) => array.indexOf(path) === index)
RECURSIVE unique(_)
unique(paths) ==
  IF paths = <<>> THEN <<>>
  ELSE LET front == unique(SubSeq(paths, 1, Len(paths) - 1))
           p == paths[Len(paths)]
       IN IF p \in Range(front) THEN front ELSE Append(front, p)

\* loadQueryFile: the asset paths of the lines of a query file
loadQueryFile(lines) ==
  unique(SelectSeq([i \in 1..Len(lines) |-> cleanPath(lines[i])],
                   LAMBDA q : q # <<>> /\ startsWith(q, PathRoot)))

\* the lines of a query file: a path under /content/, a path under
\* /content/dam/, or a path relative to the base path
QueryLines ==
  {pre \o rest : pre \in {<<>>, PathRoot, DamPrefix \o <<"/">>},
                 rest \in Texts(RestChars, 1, MaxText)}

\* --query-file with a file of two lines: downloadAsset computes the
\* output path of every asset path loadQueryFile returns
DownloadQueried ==
  /\ phase = "idle"
  /\ infos = <<>>
  /\ \E l1 \in QueryLines, l2 \in QueryLines :
       LET paths == loadQueryFile(<<l1, l2>>)
       IN infos' = [i \in 1..Len(paths) |->
                      [by |-> "downloadAsset", path |-> paths[i],
                       outputPath |-> outputPathOf(paths[i])]]
  /\ UNCHANGED <<envVars, runVars, dlVars, phase, searchVars, folderQueue, processedPaths,
                 discoveredAssets, totalAssets, foldersScanned, foundAssets, fetchLog,
                 fetchFailed, fetchLevel, probes, checks>>

NextOutput == DownloadQueried

SpecOutput == InitMatch /\ [][NextOutput]_vars

\* ---------------------------------------------------------------------
\* C38  Distinct assets, distinct files: two different asset paths handed
\* to downloadAsset are never mapped to the same output file path.
C38_DistinctFiles ==
  \A i, j \in 1..Len(infos) :
    infos[i].path # infos[j].path => infos[i].outputPath # infos[j].outputPath

====
